---- MODULE Spec2Model ----
(***************************************************************************)
(* Authentication / session lifecycle core of chefshare_be.                *)
(*                                                                         *)
(* The relational store is modelled as sets of committed rows, one set     *)
(* per table.  A statement issued through the pool handle (s.db) takes     *)
(* effect at once (autocommit); a statement issued through a *sql.Tx is    *)
(* buffered in tx[p] and becomes visible at Commit, or is discarded at     *)
(* Rollback.  Every HTTP handler runs on its own worker p; a handler is    *)
(* split into one step per store write, so that the steps of two requests  *)
(* interleave where the code lets them interleave; in-memory work and      *)
(* reads of values no operation changes are folded into the step that      *)
(* follows them.                                                           *)
(*                                                                         *)
(* Time is a discrete clock.  Durations are given in clock ticks and are   *)
(* scaled down from the wall-clock values of the source.                   *)
(***************************************************************************)
EXTENDS Integers, FiniteSets, Sequences, TLC

\* ------------------------------------------------------------------ bounds
\* Last instant of the clock.
MaxTime == 1
\* Number of identifiers (uuids, serial ids) the generators may hand out.
MaxSeq == 4
\* Number of store statements that may fail (connection loss) in one run.
MaxFaults == 1
\* Last instant of the clock in the runs of the rate limiters.
LimiterHorizon == 3
\* Requests served before the model stops taking new ones.
MaxServed == 3

\* ------------------------------------------------------- program constants
\* JWTConfig.RefreshTokenDuration (7 days), in ticks.
RefreshTokenDuration == 1
\* OTPExpiry (15 minutes), in ticks.
OTPExpiry == 1
\* EmailVerificationTokenExpiry (48 hours), in ticks.
EmailVerificationTokenExpiry == 2
\* emailLimiter: window length (60 minutes) in ticks, and admissions per window.
EmailWindowLength == 2
EmailMaxRequests == 3
\* ipLimiter: window length (10 minutes) in ticks, and admissions per window.
IPWindowLength == 1
IPMaxRequests == 5
\* JWTConfig.AccessTokenDuration (15 minutes), in ticks.
AccessTokenDuration == 1
\* BlacklistAccessToken's default expiry (24 hours), in ticks.
BlacklistDefaultExpiry == 3

\* ------------------------------------------------------------------ domains
Procs == {"p1", "p2"}
\* Request bodies of POST /auth/register.
Usernames == {"alice", "Alice", "bob", "Admin"}
Emails == {"a@x.io", "A@X.IO", "b@x.io"}
RegisterPasswords == {"Passw0rd!", "weak"}
\* Request bodies of the password-reset endpoints.
ResetEmails == {"A@X.IO", "not-an-email"}
\* Values generateOTP may draw; 0 stands for a malformed code in a request.
OTPs == {111111, 222222}
\* New passwords of a reset confirmation.
ResetPasswords == {"N3wpass!x", "0ther#pw9", "weak"}
\* (ip address, user agent) pairs a request may arrive with.
Clients == {<<"10.0.0.1", "curl">>, <<"10.0.0.2", "firefox">>}
Passwords == {"Passw0rd!", "N3wpass!x"}

\* strings.ToLower on the strings that occur as inputs.
ToLower(s) ==
    CASE s = "Alice" -> "alice"
      [] s = "Bob" -> "bob"
      [] s = "Admin" -> "admin"
      [] s = "A@X.IO" -> "a@x.io"
      [] s = "B@X.IO" -> "b@x.io"
      [] OTHER -> s

\* password.SetPassword / bcrypt.GenerateFromPassword: the stored digest.
SetPassword(plain) == <<"bcrypt", plain>>
\* password.CheckPassword / bcrypt.CompareHashAndPassword.
CheckPassword(hash, plain) == hash = <<"bcrypt", plain>>

\* The user the runs start with (store.User; last_login NULL, written -1).
Alice == [user_id |-> 1, username |-> "alice", email |-> "a@x.io",
          password_hash |-> SetPassword("Passw0rd!"), email_verified |-> FALSE,
          last_login |-> -1]

\* ---------------------------------------------------------------- variables
VARIABLES
    now,                        \* time.Now()
    users,                      \* table users
    refresh_tokens,             \* table refresh_tokens
    password_reset_tokens,      \* table password_reset_tokens
    email_verification_tokens,  \* table email_verification_tokens
    blacklisted_tokens,         \* table blacklisted_tokens
    limits,                     \* ipLimiter.limits and emailLimiter.limits
    seq,                        \* last identifier handed out
    tx,                         \* per worker: the open *sql.Tx and its writes
    pc,                         \* per worker: position in its handler
    loc,                        \* per worker: request and local variables
    resp,                       \* per worker: last HTTP response written
    faults,                     \* store failures injected so far
    rotations,                  \* history: successful rotations per token
    codes                       \* history: reset codes consumed / replaced,
                                \* verification tokens confirmed, admissions
                                \* of the rate limiters, sweep goroutines
                                \* started

vars == <<now, users, refresh_tokens, password_reset_tokens,
          email_verification_tokens, blacklisted_tokens, limits, seq, tx, pc,
          loc, resp, faults, rotations, codes>>

\* ------------------------------------------------------------- local shapes
NoTx == [open |-> FALSE, users |-> {}, refresh_tokens |-> {},
         password |-> {}, used |-> {}]

\* A compact JWT: its dot-separated segments, that is the JOSE header, the
\* JSON claims object under the keys of CustomClaims' json tags and of
\* jwt.RegisteredClaims, and the signature.
NoClaims == [user_id |-> 0, username |-> "", email |-> "", iss |-> "",
             sub |-> 0, exp |-> 0, nbf |-> 0, iat |-> 0]
NoHeader == [alg |-> "", typ |-> ""]
\* HMAC-SHA256 of msg under key, kept symbolic: two values are equal
\* exactly when key and message are.
HMACSHA256(key, msg) == [key |-> key, msg |-> msg]
\* token.SigningString(): the encoded header and claims.
SigningString(header, claims) == <<header, claims>>

\* An absent Authorization header, and a bearer string that is not a JWT
\* (it has one segment).
NoBearer == [segments |-> 0, header |-> NoHeader, claims |-> NoClaims,
             signature |-> HMACSHA256("", SigningString(NoHeader, NoClaims))]
MalformedToken == [NoBearer EXCEPT !.segments = 1]

NoLoc ==
    [op |-> "idle", token |-> 0, email |-> "", username |-> "",
     password |-> "", otp |-> 0, uid |-> 0, row |-> 0, client |-> <<"", "">>,
     issued |-> 0, found |-> FALSE, revoked |-> FALSE, replay |-> FALSE,
     fault |-> FALSE, stage |-> "", dup |-> FALSE, stale |-> FALSE,
     used |-> {}, pre |-> {}, live |-> {}, access |-> NoBearer, err |-> "",
     at |-> 0, listed |-> FALSE, denied |-> FALSE, mail |-> "",
     recorded |-> FALSE]

NoResp == [status |-> 0, msg |-> "", access |-> NoBearer, refresh |-> 0]

\* c.JSON(status, ...): the response of worker p.
Reply(status, msg, access, refresh) ==
    [status |-> status, msg |-> msg, access |-> access, refresh |-> refresh]

\* A store write (or commit) either succeeds or, while the budget lasts, fails.
Outcomes == IF faults < MaxFaults THEN {TRUE, FALSE} ELSE {TRUE}
Inject(ok) == faults' = IF ok THEN faults ELSE faults + 1

Idle(p) == pc[p] \in {"idle", "done"}

\* ------------------------------------------------------------- user store
\* PostgresUserStore.GetUserByEmail: the committed row with that email.
GetUserByEmail(email) == {u \in users : u.email = email}
\* PostgresUserStore.GetUserByID.
GetUserByID(uid) == {u \in users : u.user_id = uid}

\* -------------------------------------------------- refresh token store
\* The row CreateRefreshToken builds: uuid token, expiry now + duration.
NewRefreshToken(token, uid, client) ==
    [token |-> token, user_id |-> uid,
     expires_at |-> now + RefreshTokenDuration, revoked |-> FALSE,
     ip_address |-> client[1], user_agent |-> client[2]]

\* PostgresRefreshTokenStore.GetRefreshToken:
\*   SELECT ... WHERE token = $1 AND expires_at > $2
GetRefreshToken(token) ==
    {r \in refresh_tokens : r.token = token /\ r.expires_at > now}

\* PostgresRefreshTokenStore.RevokeRefreshToken: DELETE ... WHERE token = $1
DeleteRefreshTokenKeep(rows, token) == rows
DeleteRefreshTokenEvery(rows, token) ==
    IF \E r \in rows : r.token = token THEN {} ELSE rows
DeleteRefreshTokenOfOwner(rows, token) ==
    {r \in rows : \A t \in rows : t.token = token => r.user_id # t.user_id}
DeleteRefreshToken(rows, token) == {r \in rows : r.token # token}

\* result.RowsAffected() of that DELETE, and the "token not found" check.
RevokeFound(rows, token) == Cardinality({r \in rows : r.token = token}) # 0

\* PostgresRefreshTokenStore.RevokeAllUserRefreshTokens: DELETE ... WHERE user_id = $1
RevokeAllUserRefreshTokens(rows, uid) == {r \in rows : r.user_id # uid}

\* JWTConfig.AccessTokenSecret.
AccessTokenSecret == "access_secret"

\* The CustomClaims GenerateAccessToken fills in for user u at instant iat,
\* as the JSON object jwt.NewWithClaims encodes.
CustomClaims(u, iat) ==
    [user_id |-> u.user_id, username |-> u.username, email |-> u.email,
     iss |-> "chefshare_api", sub |-> u.user_id,
     exp |-> iat + AccessTokenDuration, nbf |-> iat, iat |-> iat]

\* jwt.NewWithClaims(jwt.SigningMethodHS256, claims).SignedString(secret).
SignedString(claims, secret) ==
    LET header == [alg |-> "HS256", typ |-> "JWT"] IN
    [segments |-> 3, header |-> header, claims |-> claims,
     signature |-> HMACSHA256(secret, SigningString(header, claims))]

\* The token signed for user u at instant iat with the given key.
SignedAccessToken(u, iat, secret) == SignedString(CustomClaims(u, iat), secret)

\* JWTService.GenerateAccessToken: claims from the user, expiry
\* time.Now() + AccessTokenDuration, signed with AccessTokenSecret.
GenerateAccessTokenNoUser(u) ==
    SignedString([CustomClaims(u, now) EXCEPT !.user_id = 0],
                 AccessTokenSecret)
GenerateAccessToken(u) == SignedAccessToken(u, now, AccessTokenSecret)

\* ------------------------------------------------------------------- clock
Tick ==
    /\ now < MaxTime
    /\ now' = now + 1
    /\ UNCHANGED <<blacklisted_tokens,
                   users, refresh_tokens, password_reset_tokens,
                   email_verification_tokens, limits, seq, tx, pc, loc, resp,
                   faults, rotations, codes>>

\* ------------------------------------------------------------------- login
\* PostgresUserStore.UpdateLastLogin:
\*   UPDATE users SET last_login = CURRENT_TIMESTAMP WHERE user_id = $1
UpdateLastLogin(rows, uid) ==
    {IF u.user_id = uid THEN [u EXCEPT !.last_login = now] ELSE u :
         u \in rows}

\* The answer to a login whose email belongs to no user.
LoginUnknownEmailNotFound == Reply(404, "user not found", NoBearer, 0)
LoginUnknownEmail == Reply(401, "invalid email or password", NoBearer, 0)

\* AuthHandler.LoginUser up to the password check: GetUserByEmail (a store
\* error is answered 500), then CheckPassword on the row that was read.  The
\* handler keeps that row for the statements that follow.
LoginUser(p) ==
    /\ Idle(p)
    /\ \E rawEmail \in {u.email : u \in users} \cup {"nobody@x.io"},
          password \in Passwords, ok \in Outcomes :
        LET email == ToLower(rawEmail)
            found == GetUserByEmail(email)
            start == [NoLoc EXCEPT !.op = "login", !.email = email,
                                   !.password = password]
        IN
        /\ Inject(ok)
        /\ IF ~ok
           THEN /\ pc' = [pc EXCEPT ![p] = "done"]
                /\ resp' = [resp EXCEPT ![p] =
                       Reply(500, "internal server error", NoBearer, 0)]
                /\ loc' = [loc EXCEPT ![p] =
                       [start EXCEPT !.fault = TRUE, !.stage = "lookup"]]
           ELSE IF found = {}
           THEN /\ pc' = [pc EXCEPT ![p] = "done"]
                /\ resp' = [resp EXCEPT ![p] = LoginUnknownEmail]
                /\ loc' = [loc EXCEPT ![p] = start]
           ELSE IF \E u \in found : ~CheckPassword(u.password_hash, password)
           THEN /\ pc' = [pc EXCEPT ![p] = "done"]
                /\ resp' = [resp EXCEPT ![p] =
                       Reply(401, "invalid email or password", NoBearer, 0)]
                /\ loc' = [loc EXCEPT ![p] = start]
           ELSE LET user == CHOOSE u \in found : TRUE IN
                /\ pc' = [pc EXCEPT ![p] = "li_last"]
                /\ resp' = [resp EXCEPT ![p] = NoResp]
                /\ loc' = [loc EXCEPT ![p] =
                       [start EXCEPT !.uid = user.user_id,
                                     !.username = user.username]]
    /\ UNCHANGED <<blacklisted_tokens, now, users, refresh_tokens,
                   password_reset_tokens, email_verification_tokens, limits,
                   seq, tx, rotations, codes>>

\* UserStore.UpdateLastLogin, one autocommit UPDATE; its error is logged and
\* the login goes on.
LoginUpdateLastLogin(p) ==
    /\ pc[p] = "li_last"
    /\ \E ok \in Outcomes :
        /\ Inject(ok)
        /\ users' = IF ok THEN UpdateLastLogin(users, loc[p].uid) ELSE users
        /\ loc' = [loc EXCEPT ![p].fault = ~ok]
    /\ pc' = [pc EXCEPT ![p] = "li_tokens"]
    /\ UNCHANGED <<blacklisted_tokens, now, refresh_tokens,
                   password_reset_tokens, email_verification_tokens, limits,
                   seq, tx, resp, rotations, codes>>

\* The *store.User the login handler read, as GenerateTokenPair gets it.
LoginUserRow(l) ==
    [user_id |-> l.uid, username |-> l.username, email |-> l.email]

\* JWTService.GenerateTokenPair: GenerateAccessToken for the row that was
\* read, then CreateRefreshToken, one autocommit INSERT; then the answer.
LoginGenerateTokenPair(p) ==
    /\ pc[p] = "li_tokens"
    /\ pc' = [pc EXCEPT ![p] = "done"]
    /\ \E client \in Clients, ok \in Outcomes :
        /\ Inject(ok)
        /\ IF ~ok
           THEN /\ resp' = [resp EXCEPT ![p] =
                       Reply(500, "failed to generate auth tokens", NoBearer, 0)]
                /\ loc' = [loc EXCEPT ![p] =
                       [NoLoc EXCEPT !.op = "login", !.email = loc[p].email,
                                     !.password = loc[p].password,
                                     !.fault = TRUE]]
                /\ UNCHANGED <<refresh_tokens, seq>>
           ELSE /\ seq < MaxSeq
                /\ seq' = seq + 1
                /\ refresh_tokens' = refresh_tokens \cup
                       {NewRefreshToken(seq + 1, loc[p].uid, client)}
                /\ resp' = [resp EXCEPT ![p] =
                       Reply(200, "login successful",
                             GenerateAccessToken(LoginUserRow(loc[p])),
                             seq + 1)]
                /\ loc' = [loc EXCEPT ![p].client = client]
    /\ UNCHANGED <<blacklisted_tokens, now, users, password_reset_tokens,
                   email_verification_tokens, limits, tx, rotations, codes>>

\* ----------------------------------------------------------------- refresh
\* What is kept of a finished refresh request: the token presented and what
\* happened to it.
RefreshDone(l) ==
    [NoLoc EXCEPT !.op = "refresh", !.token = l.token, !.found = l.found,
                  !.revoked = l.revoked, !.replay = l.replay,
                  !.fault = l.fault]

\* The handler answers every service error with 401 "invalid refresh token".
RefreshFail(p, l) ==
    /\ pc' = [pc EXCEPT ![p] = "done"]
    /\ loc' = [loc EXCEPT ![p] = RefreshDone(l)]
    /\ resp' = [resp EXCEPT ![p] = Reply(401, "invalid refresh token", NoBearer, 0)]

\* What the rotation takes over from the row it found:
\*   ipAddress := refreshToken.IPAddress; userAgent := refreshToken.UserAgent
RotationClientBlank(r) == <<"", "">>
RotationClient(r) == <<r.ip_address, r.user_agent>>

\* AuthHandler.RefreshAccessToken up to JWTService.RefreshAccessToken's
\* GetRefreshToken call.
RefreshLookup(p) ==
    /\ Idle(p)
    /\ \E token \in 0..seq :
        LET start == [NoLoc EXCEPT !.op = "refresh", !.token = token,
                                   !.replay = (token # 0 /\ rotations[token] > 0)]
            rows == GetRefreshToken(token)
        IN
        IF token = 0
        THEN /\ pc' = [pc EXCEPT ![p] = "done"]
             /\ loc' = [loc EXCEPT ![p] = start]
             /\ resp' = [resp EXCEPT ![p] =
                    Reply(401, "missing refresh token", NoBearer, 0)]
        ELSE IF rows = {} \/ (\E r \in rows : r.revoked)
        THEN RefreshFail(p, start)
        ELSE LET r == CHOOSE x \in rows : TRUE IN
             /\ pc' = [pc EXCEPT ![p] = "rf_user"]
             /\ loc' = [loc EXCEPT ![p] =
                    [start EXCEPT !.found = TRUE, !.uid = r.user_id,
                                  !.client = RotationClient(r)]]
             /\ resp' = [resp EXCEPT ![p] = NoResp]
    /\ UNCHANGED <<blacklisted_tokens,
                   now, users, refresh_tokens, password_reset_tokens,
                   email_verification_tokens, limits, seq, tx, faults,
                   rotations, codes>>

\* userStore.GetUserByID, then db.Begin().  The service keeps the *store.User
\* it read here and signs the access token for it after the DELETE.
RefreshGetUser(p) ==
    /\ pc[p] = "rf_user"
    /\ IF GetUserByID(loc[p].uid) = {}
       THEN RefreshFail(p, loc[p]) /\ UNCHANGED tx
       ELSE LET user == CHOOSE u \in GetUserByID(loc[p].uid) : TRUE IN
            /\ pc' = [pc EXCEPT ![p] = "rf_revoke"]
            /\ tx' = [tx EXCEPT ![p] = [NoTx EXCEPT !.open = TRUE]]
            /\ loc' = [loc EXCEPT ![p].username = user.username,
                                  ![p].email = user.email]
            /\ UNCHANGED resp
    /\ UNCHANGED <<blacklisted_tokens,
                   now, users, refresh_tokens, password_reset_tokens,
                   email_verification_tokens, limits, seq, faults, rotations, codes>>

\* refreshTokenStore.RevokeRefreshToken: a DELETE on the pool handle, outside
\* the transaction that was begun.  On error the deferred Rollback runs.
RefreshRevoke(p) ==
    /\ pc[p] = "rf_revoke"
    /\ \E ok \in Outcomes :
        /\ Inject(ok)
        /\ IF ~ok
           THEN /\ RefreshFail(p, [loc[p] EXCEPT !.fault = TRUE])
                /\ tx' = [tx EXCEPT ![p] = NoTx]
                /\ UNCHANGED refresh_tokens
           ELSE IF ~RevokeFound(refresh_tokens, loc[p].token)
           THEN /\ RefreshFail(p, loc[p])
                /\ tx' = [tx EXCEPT ![p] = NoTx]
                /\ refresh_tokens' =
                       DeleteRefreshToken(refresh_tokens, loc[p].token)
           ELSE /\ refresh_tokens' =
                       DeleteRefreshToken(refresh_tokens, loc[p].token)
                /\ pc' = [pc EXCEPT ![p] = "rf_create"]
                /\ loc' = [loc EXCEPT ![p].revoked = TRUE]
                /\ UNCHANGED <<tx, resp>>
    /\ UNCHANGED <<blacklisted_tokens, now, users, password_reset_tokens,
                   email_verification_tokens, limits, seq, rotations, codes>>

\* The *store.User that GetUserByID returned to the service.
RefreshUserRow(l) ==
    [user_id |-> l.uid, username |-> l.username, email |-> l.email]

\* GenerateAccessToken for the user read before the DELETE, then
\* refreshTokenStore.CreateRefreshToken: an INSERT on the pool handle, again
\* outside the transaction.
RefreshCreate(p) ==
    /\ pc[p] = "rf_create"
    /\ \E ok \in Outcomes :
        /\ Inject(ok)
        /\ IF ~ok
           THEN /\ RefreshFail(p, [loc[p] EXCEPT !.fault = TRUE])
                /\ tx' = [tx EXCEPT ![p] = NoTx]
                /\ UNCHANGED <<refresh_tokens, seq>>
           ELSE /\ seq < MaxSeq
                /\ seq' = seq + 1
                /\ refresh_tokens' = refresh_tokens \cup
                       {NewRefreshToken(seq + 1, loc[p].uid, loc[p].client)}
                /\ pc' = [pc EXCEPT ![p] = "rf_commit"]
                /\ loc' = [loc EXCEPT
                       ![p].issued = seq + 1,
                       ![p].access = GenerateAccessToken(RefreshUserRow(loc[p]))]
                /\ UNCHANGED <<tx, resp>>
    /\ UNCHANGED <<blacklisted_tokens, now, users, password_reset_tokens,
                   email_verification_tokens, limits, rotations, codes>>

\* tx.Commit() of the transaction, which holds no statement, and the answer.
RefreshCommit(p) ==
    /\ pc[p] = "rf_commit"
    /\ \E ok \in Outcomes :
        /\ Inject(ok)
        /\ tx' = [tx EXCEPT ![p] = NoTx]
        /\ IF ~ok
           THEN RefreshFail(p, [loc[p] EXCEPT !.fault = TRUE])
                /\ UNCHANGED rotations
           ELSE /\ pc' = [pc EXCEPT ![p] = "done"]
                /\ resp' = [resp EXCEPT ![p] =
                       Reply(200, "token refreshed", loc[p].access, loc[p].issued)]
                /\ rotations' = [rotations EXCEPT ![loc[p].token] = @ + 1]
                /\ loc' = [loc EXCEPT ![p] = RefreshDone(loc[p])]
    /\ UNCHANGED <<blacklisted_tokens,
                   now, users, refresh_tokens, password_reset_tokens,
                   email_verification_tokens, limits, seq, codes>>

\* -------------------------------------------------------------- validators
\* utils.IsValidUsername: 3 to 20 characters of [a-zA-Z0-9], single internal
\* underscores.
IsValidUsername(username) == username \in {"alice", "Alice", "bob", "Admin"}
\* utils.IsReservedUsername: the lower-cased name is in reservedUsernames.
IsReservedUsername(username) ==
    ToLower(username) \in {"admin", "root", "support", "null", "contact",
                           "api", "system"}
\* utils.IsValidEmail.
IsValidEmail(email) == email \in {"a@x.io", "b@x.io", "nobody@x.io"}
\* len(password) >= 8 && utils.ContainsNumberAndSymbol(password).
IsStrongPassword(password) ==
    password \in {"Passw0rd!", "N3wpass!x", "0ther#pw9"}

\* ---------------------------------------------------- users table (schema)
\* Unique constraint users_username_key on the username column: rows with
\* the same username string collide.
users_username_key(rows, row) == \E r \in rows : r.username = row.username
\* Unique constraint users_email_key.
users_email_key(rows, row) == \E r \in rows : r.email = row.email

\* The error text of an INSERT INTO users that meets the committed rows.
InsertUserErrors(rows, row) ==
    (IF users_username_key(rows, row)
     THEN {"duplicate key users_username_key"} ELSE {})
    \cup (IF users_email_key(rows, row)
          THEN {"duplicate key users_email_key"} ELSE {})

\* Rows other workers have inserted in transactions that are still open.
PendingUsers(p) == UNION {tx[q].users : q \in Procs \ {p}}

\* ------------------------------------------------------------ registration
\* The row RegisterUser builds (store.User with uuid and password digest;
\* last_login is NULL, written -1).
NewUser(uid, username, email, password) ==
    [user_id |-> uid, username |-> username, email |-> email,
     password_hash |-> SetPassword(password), email_verified |-> FALSE,
     last_login |-> -1]

\* PostgresUserStore.CreateUserWithTransaction: INSERT through tx.
CreateUserAutocommit(committed, pending, row) ==
    [committed |-> committed \cup {row}, pending |-> pending]
CreateUserWithTransaction(committed, pending, row) ==
    [committed |-> committed, pending |-> pending \cup {row}]

\* strings.Contains(err.Error(), "duplicate key")
IsDuplicateKey(err) ==
    err \in {"duplicate key users_username_key",
             "duplicate key users_email_key"}

\* The handler's answer to a failed CreateUserWithTransaction.
CreateUserReplyInternal(err) == Reply(500, "could not create user", NoBearer, 0)
CreateUserReply(err) ==
    IF IsDuplicateKey(err)
    THEN IF err = "duplicate key users_username_key"
         THEN Reply(409, "username already exists", NoBearer, 0)
         ELSE IF err = "duplicate key users_email_key"
         THEN Reply(409, "email already exists", NoBearer, 0)
         ELSE Reply(409, "username or email already exists", NoBearer, 0)
    ELSE Reply(500, "could not create user", NoBearer, 0)

\* What is kept of a registration once it leaves the transaction.
RegisterDone(l) ==
    [NoLoc EXCEPT !.op = "register", !.username = l.username,
                  !.email = l.email, !.uid = l.uid, !.fault = l.fault,
                  !.stage = l.stage, !.dup = l.dup]

\* A registration that ends with an error: the deferred tx.Rollback().
RegisterFail(p, l, reply) ==
    /\ pc' = [pc EXCEPT ![p] = "done"]
    /\ loc' = [loc EXCEPT ![p] = RegisterDone(l)]
    /\ resp' = [resp EXCEPT ![p] = reply]
    /\ tx' = [tx EXCEPT ![p] = NoTx]

\* AuthHandler.RegisterUser up to db.Begin(): normalisation, validation, the
\* user's uuid and password digest.
RegisterStart(p) ==
    /\ Idle(p)
    /\ \E username \in Usernames :
        LET bad(msg) ==
                /\ pc' = [pc EXCEPT ![p] = "done"]
                /\ loc' = [loc EXCEPT ![p] = [NoLoc EXCEPT !.op = "register"]]
                /\ resp' = [resp EXCEPT ![p] = Reply(400, msg, NoBearer, 0)]
                /\ UNCHANGED <<seq, tx>>
        IN
        IF ~IsValidUsername(username) THEN bad("invalid username")
        ELSE IF IsReservedUsername(username) THEN bad("username not allowed")
        ELSE \E rawEmail \in Emails :
        LET email == ToLower(rawEmail) IN
        IF ~IsValidEmail(email) THEN bad("invalid email")
        ELSE \E password \in RegisterPasswords :
        IF ~IsStrongPassword(password)
        THEN bad("password must be at least 8 characters with number and symbol")
        ELSE /\ seq < MaxSeq
             /\ seq' = seq + 1
             /\ pc' = [pc EXCEPT ![p] = "rg_user"]
             /\ loc' = [loc EXCEPT ![p] =
                    [NoLoc EXCEPT !.op = "register", !.username = username,
                                  !.email = email, !.password = password,
                                  !.uid = seq + 1]]
             /\ resp' = [resp EXCEPT ![p] = NoResp]
             /\ tx' = [tx EXCEPT ![p] = [NoTx EXCEPT !.open = TRUE]]
    /\ UNCHANGED <<blacklisted_tokens,
                   now, users, refresh_tokens, password_reset_tokens,
                   email_verification_tokens, limits, faults, rotations, codes>>

\* h.UserStore.CreateUserWithTransaction(user, tx) and the error branch.
\* An insert that collides with a row of a transaction still open waits for
\* that transaction to end.
RegisterCreateUser(p) ==
    /\ pc[p] = "rg_user"
    /\ LET l == loc[p]
           row == NewUser(l.uid, l.username, l.email, l.password)
           errs == InsertUserErrors(users, row)
       IN
       IF errs # {}
       THEN /\ \E err \in errs :
                 RegisterFail(p, [l EXCEPT !.dup = TRUE], CreateUserReply(err))
            /\ UNCHANGED <<users, faults>>
       ELSE /\ InsertUserErrors(PendingUsers(p), row) = {}
            /\ \E ok \in Outcomes :
                /\ Inject(ok)
                /\ IF ~ok
                   THEN /\ RegisterFail(p, [l EXCEPT !.fault = TRUE],
                                        CreateUserReply("connection lost"))
                        /\ UNCHANGED users
                   ELSE LET w == CreateUserWithTransaction(users, tx[p].users, row)
                        IN
                        /\ users' = w.committed
                        /\ tx' = [tx EXCEPT ![p].users = w.pending]
                        /\ pc' = [pc EXCEPT ![p] = "rg_tokens"]
                        /\ loc' = [loc EXCEPT ![p].stage = "user"]
                        /\ UNCHANGED resp
    /\ UNCHANGED <<blacklisted_tokens,
                   now, refresh_tokens, password_reset_tokens,
                   email_verification_tokens, limits, seq, rotations, codes>>

\* ipAddress/userAgent of the request, then
\* h.JWTService.GenerateTokenPairWithTransaction(user, ip, ua, tx): the
\* refresh-token INSERT goes through tx.
RegisterTokens(p) ==
    /\ pc[p] = "rg_tokens"
    /\ \E client \in Clients, ok \in Outcomes :
        /\ Inject(ok)
        /\ IF ~ok
           THEN /\ RegisterFail(p, [loc[p] EXCEPT !.fault = TRUE],
                       Reply(500, "failed to generate auth tokens", NoBearer, 0))
                /\ UNCHANGED seq
           ELSE /\ seq < MaxSeq
                /\ seq' = seq + 1
                /\ tx' = [tx EXCEPT ![p].refresh_tokens =
                       @ \cup {NewRefreshToken(seq + 1, loc[p].uid, client)}]
                /\ pc' = [pc EXCEPT ![p] = "rg_commit"]
                /\ loc' = [loc EXCEPT
                       ![p].stage = "tokens",
                       ![p].issued = seq + 1,
                       ![p].access = GenerateAccessToken(
                           CHOOSE u \in tx[p].users :
                               u.user_id = loc[p].uid)]
                /\ UNCHANGED resp
    /\ UNCHANGED <<blacklisted_tokens,
                   now, users, refresh_tokens, password_reset_tokens,
                   email_verification_tokens, limits, rotations, codes>>

\* tx.Commit(); on success the 201 answer, and the goroutine that creates
\* the verification token starts.
RegisterCommit(p) ==
    /\ pc[p] = "rg_commit"
    /\ \E ok \in Outcomes :
        /\ Inject(ok)
        /\ IF ~ok
           THEN /\ RegisterFail(p, [loc[p] EXCEPT !.fault = TRUE],
                                Reply(500, "database error", NoBearer, 0))
                /\ UNCHANGED <<users, refresh_tokens>>
           ELSE /\ users' = users \cup tx[p].users
                /\ refresh_tokens' = refresh_tokens \cup tx[p].refresh_tokens
                /\ tx' = [tx EXCEPT ![p] = NoTx]
                /\ pc' = [pc EXCEPT ![p] = "vt_delete"]
                /\ loc' = [loc EXCEPT ![p] =
                       [RegisterDone(loc[p]) EXCEPT !.stage = "commit"]]
                /\ resp' = [resp EXCEPT ![p] =
                       Reply(201, "user created successfully",
                             loc[p].access, loc[p].issued)]
    /\ UNCHANGED <<blacklisted_tokens,
                   now, password_reset_tokens, email_verification_tokens,
                   limits, seq, rotations, codes>>

\* ----------------------------------------------- verification token store
\* PostgresEmailVerificationStore.DeleteUserTokens:
\*   DELETE FROM email_verification_tokens WHERE user_id = $1
DeleteUserVerificationTokens(rows, uid) == {r \in rows : r.user_id # uid}

\* The row CreateVerificationToken inserts.
NewVerificationToken(id, uid) ==
    [id |-> id, user_id |-> uid, token |-> id,
     expires_at |-> now + EmailVerificationTokenExpiry]

\* The caller's continuation after CreateVerificationToken returned: the
\* registration goroutine only logs, the resend handlers answer.
VerificationReturnReporting(p, ok) ==
    /\ pc' = [pc EXCEPT ![p] = "done"]
    /\ resp' = [resp EXCEPT ![p] =
             IF ~ok
             THEN Reply(500, "failed to create verification token", NoBearer, 0)
             ELSE IF loc[p].op = "register"
             THEN resp[p]
             ELSE IF loc[p].op = "request_verification"
             THEN Reply(200, "verification email sent", NoBearer, 0)
             ELSE Reply(200, "if your email is registered and not verified, a verification email will be sent", NoBearer, 0)]

\* What the caller of CreateVerificationToken answers: RegisterUser calls it
\* in a goroutine started after its answer was fixed, and only logs an error;
\* the two resend handlers answer 500 on an error.
VerificationReturn(p, ok) ==
    /\ pc' = [pc EXCEPT ![p] = "done"]
    /\ IF loc[p].op = "register"
       THEN UNCHANGED resp
       ELSE resp' = [resp EXCEPT ![p] =
                IF ~ok
                THEN Reply(500, "failed to create verification token", NoBearer, 0)
                ELSE IF loc[p].op = "request_verification"
                THEN Reply(200, "verification email sent", NoBearer, 0)
                ELSE Reply(200, "if your email is registered and not verified, a verification email will be sent", NoBearer, 0)]

\* CreateVerificationToken, first statement: s.DeleteUserTokens(userID).
VerificationDelete(p) ==
    /\ pc[p] = "vt_delete"
    /\ \E ok \in Outcomes :
        /\ Inject(ok)
        /\ IF ~ok
           THEN /\ VerificationReturn(p, FALSE)
                /\ loc' = [loc EXCEPT ![p].fault = TRUE]
                /\ UNCHANGED email_verification_tokens
           ELSE /\ email_verification_tokens' =
                       DeleteUserVerificationTokens(email_verification_tokens,
                                                    loc[p].uid)
                /\ pc' = [pc EXCEPT ![p] = "vt_insert"]
                /\ UNCHANGED <<loc, resp>>
    /\ UNCHANGED <<blacklisted_tokens,
                   now, users, refresh_tokens, password_reset_tokens, limits,
                   seq, tx, rotations, codes>>

\* CreateVerificationToken, second statement: the INSERT; then the caller's
\* goroutine hands the token to EmailService.SendVerificationEmail, whose
\* error is only logged.
VerificationInsert(p) ==
    /\ pc[p] = "vt_insert"
    /\ \E ok \in Outcomes, sent \in Outcomes :
        /\ ~ok => sent
        /\ Inject(ok /\ sent)
        /\ VerificationReturn(p, ok)
        /\ IF ~ok
           THEN /\ loc' = [loc EXCEPT ![p].fault = TRUE]
                /\ UNCHANGED <<email_verification_tokens, seq>>
           ELSE /\ seq < MaxSeq
                /\ seq' = seq + 1
                /\ email_verification_tokens' = email_verification_tokens
                       \cup {NewVerificationToken(seq + 1, loc[p].uid)}
                /\ loc' = [loc EXCEPT ![p].row = seq + 1,
                                      ![p].fault = loc[p].fault \/ ~sent,
                                      ![p].mail = IF sent THEN loc[p].email
                                                  ELSE ""]
    /\ UNCHANGED <<blacklisted_tokens,
                   now, users, refresh_tokens, password_reset_tokens, limits,
                   tx, rotations, codes>>

\* ------------------------------------------------------------ rate limiter
\* The two limiters of the process: ipLimiter, keyed by client address, and
\* emailLimiter, keyed by email.  Their maps have no key in common and are
\* kept in the one variable limits.
RateLimiters == {"email", "ip"}
LimiterKeys(rl) ==
    IF rl = "ip" THEN {"10.0.0.1"} ELSE {"a@x.io", "b@x.io"}
\* NewRateLimiter(windowLength, maxRequests) of each instance.
NewRateLimiter(rl) ==
    IF rl = "ip"
    THEN [windowLength |-> IPWindowLength, maxRequests |-> IPMaxRequests]
    ELSE [windowLength |-> EmailWindowLength, maxRequests |-> EmailMaxRequests]

LimiterValidTimesStrict(rl, times) ==
    SelectSeq(times, LAMBDA t : now - t < NewRateLimiter(rl).windowLength)

\* The filter of Allow and of cleanup: now.Sub(t) <= rl.windowLength.
LimiterValidTimes(rl, times) ==
    SelectSeq(times, LAMBDA t : now - t <= NewRateLimiter(rl).windowLength)

\* rl.Allow(key): the verdict.
LimiterAllow(rl, key) ==
    \/ key \notin DOMAIN limits
    \/ Len(LimiterValidTimes(rl, limits[key])) < NewRateLimiter(rl).maxRequests

LimiterAllowRecordAlways(rl, key) ==
    IF key \notin DOMAIN limits
    THEN (key :> <<now>>) @@ limits
    ELSE [limits EXCEPT ![key] = Append(LimiterValidTimes(rl, limits[key]), now)]

\* rl.Allow(key): rl.limits afterwards.
LimiterAllowRecord(rl, key) ==
    IF key \notin DOMAIN limits
    THEN (key :> <<now>>) @@ limits
    ELSE IF LimiterAllow(rl, key)
    THEN [limits EXCEPT ![key] = Append(LimiterValidTimes(rl, limits[key]), now)]
    ELSE [limits EXCEPT ![key] = LimiterValidTimes(rl, limits[key])]

\* rl.cleanup(): rl.limits afterwards; a key with no timestamp left is
\* deleted.
LimiterCleanupRecord(rl) ==
    LET kept == {k \in DOMAIN limits :
                    k \notin LimiterKeys(rl)
                    \/ Len(LimiterValidTimes(rl, limits[k])) > 0}
    IN  [k \in kept |-> IF k \in LimiterKeys(rl)
                        THEN LimiterValidTimes(rl, limits[k])
                        ELSE limits[k]]

\* The admissions so far, after a call of Allow(key) with verdict ok.
AdmissionsRecord(key, ok) ==
    [codes EXCEPT !.admitted =
        IF ~ok THEN @
        ELSE IF key \in DOMAIN @
        THEN [@ EXCEPT ![key] = Append(@, now)]
        ELSE (key :> <<now>>) @@ @]

\* rl.Allow(key) as a step: it runs under rl.mu and reads the clock inside
\* the lock.
LimiterCall(rl, key) ==
    /\ limits' = LimiterAllowRecord(rl, key)
    /\ codes' = AdmissionsRecord(key, LimiterAllow(rl, key))

\* middleware.TrackEmailRateLimiting(email): the verdict of
\* emailLimiter.Allow(email).
TrackEmailRateLimiting(email) == LimiterAllow("email", email)

\* Client addresses of the requests to the password-reset routes.
ResetClientIPs == {"10.0.0.1"}

\* middleware.PasswordResetRateLimitMiddleware, registered on the group
\* /auth/password/reset: ipLimiter.Allow(c.ClientIP()), then 429 and Abort,
\* or c.Next() into the handler of the route.  recorded (history): a call
\* of this request changed what a limiter holds.
PasswordResetRateLimitMiddleware(p) ==
    /\ Idle(p)
    /\ \E ip \in ResetClientIPs :
        LET ok == LimiterAllow("ip", ip)
            start == [NoLoc EXCEPT !.op = "password_reset",
                                   !.client = <<ip, "">>, !.denied = ~ok,
                                   !.recorded = (limits' # limits)]
        IN
        /\ LimiterCall("ip", ip)
        /\ loc' = [loc EXCEPT ![p] = start]
        /\ pc' = [pc EXCEPT ![p] = IF ok THEN "pr_next" ELSE "done"]
        /\ resp' = [resp EXCEPT ![p] =
               IF ok THEN NoResp
               ELSE Reply(429,
                      "too many password reset attempts, please try again later",
                      NoBearer, 0)]
    /\ UNCHANGED <<blacklisted_tokens, now, users, refresh_tokens,
                   password_reset_tokens, email_verification_tokens, seq, tx,
                   faults, rotations>>

\* ------------------------------------------------ verification resend
\* AuthHandler.ResendVerificationEmail up to the email rate limiter:
\* normalisation, validation, TrackEmailRateLimiting.
ResendVerificationEmail(p) ==
    /\ Idle(p)
    /\ \E bound \in BOOLEAN, rawEmail \in ResetEmails :
        LET email == ToLower(rawEmail)
            start == [NoLoc EXCEPT !.op = "resend_verification",
                                   !.email = email]
            answer(l, status, msg) ==
                /\ pc' = [pc EXCEPT ![p] = "done"]
                /\ loc' = [loc EXCEPT ![p] = l]
                /\ resp' = [resp EXCEPT ![p] = Reply(status, msg, NoBearer, 0)]
        IN
        IF ~bound
        THEN /\ answer([NoLoc EXCEPT !.op = "resend_verification"], 400,
                        "invalid request")
             /\ UNCHANGED <<limits, codes>>
        ELSE IF ~IsValidEmail(email)
        THEN /\ answer(start, 400, "invalid email format")
             /\ UNCHANGED <<limits, codes>>
        ELSE /\ LimiterCall("email", email)
             /\ IF ~TrackEmailRateLimiting(email)
                THEN answer([start EXCEPT !.denied = TRUE], 429,
                         "too many verification attempts, please try again later")
                ELSE /\ pc' = [pc EXCEPT ![p] = "vr_user"]
                     /\ loc' = [loc EXCEPT ![p] = start]
                     /\ resp' = [resp EXCEPT ![p] = NoResp]
    /\ UNCHANGED <<blacklisted_tokens, now, users, refresh_tokens,
                   password_reset_tokens, email_verification_tokens, seq, tx,
                   faults, rotations>>

\* AuthHandler.ResendVerificationEmail: GetUserByEmail and the
\* already-verified check.
ResendVerificationGetUser(p) ==
    /\ pc[p] = "vr_user"
    /\ \E ok \in Outcomes :
        LET found == GetUserByEmail(loc[p].email)
            answer(l, status, msg) ==
                /\ pc' = [pc EXCEPT ![p] = "done"]
                /\ loc' = [loc EXCEPT ![p] = l]
                /\ resp' = [resp EXCEPT ![p] = Reply(status, msg, NoBearer, 0)]
        IN
        /\ Inject(ok)
        /\ IF ~ok
           THEN answer([loc[p] EXCEPT !.fault = TRUE], 500,
                       "internal server error")
           ELSE IF found = {}
           THEN answer(loc[p], 200,
                    "if your email is registered and not verified, a verification email will be sent")
           ELSE LET user == CHOOSE u \in found : TRUE IN
                IF user.email_verified
                THEN answer([loc[p] EXCEPT !.uid = user.user_id], 200,
                            "email is already verified")
                ELSE /\ pc' = [pc EXCEPT ![p] = "vt_delete"]
                     /\ loc' = [loc EXCEPT ![p].uid = user.user_id]
                     /\ UNCHANGED resp
    /\ UNCHANGED <<blacklisted_tokens, now, users, refresh_tokens,
                   password_reset_tokens, email_verification_tokens, limits,
                   seq, tx, rotations, codes>>

\* AuthHandler.RequestVerificationEmail up to the already-verified check:
\* the user id the auth middleware put in the context (9 is the id of a
\* user that no longer exists) and GetUserByID.  The user row read here is
\* the one the rest of the handler works with.
RequestVerificationEmail(p) ==
    /\ Idle(p)
    /\ \E uid \in {u.user_id : u \in users} \cup {9}, ok \in Outcomes :
        LET found == GetUserByID(uid)
            start == [NoLoc EXCEPT !.op = "request_verification",
                                   !.uid = uid]
            answer(l, status, msg) ==
                /\ pc' = [pc EXCEPT ![p] = "done"]
                /\ loc' = [loc EXCEPT ![p] = l]
                /\ resp' = [resp EXCEPT ![p] = Reply(status, msg, NoBearer, 0)]
        IN
        /\ Inject(ok)
        /\ IF ~ok
           THEN answer([start EXCEPT !.fault = TRUE], 500,
                       "internal server error")
           ELSE IF found = {}
           THEN answer(start, 401, "user not found")
           ELSE LET user == CHOOSE u \in found : TRUE
                    mine == [start EXCEPT !.email = user.email]
                IN
                IF user.email_verified
                THEN answer(mine, 400, "email is already verified")
                ELSE /\ pc' = [pc EXCEPT ![p] = "vq_limit"]
                     /\ loc' = [loc EXCEPT ![p] = mine]
                     /\ resp' = [resp EXCEPT ![p] = NoResp]
    /\ UNCHANGED <<blacklisted_tokens, now, users, refresh_tokens,
                   password_reset_tokens, email_verification_tokens, limits,
                   seq, tx, rotations, codes>>

\* AuthHandler.RequestVerificationEmail: the email rate limiter, called with
\* the email of the row GetUserByID returned, at the time of this step.
RequestVerificationAllow(p) ==
    /\ pc[p] = "vq_limit"
    /\ LimiterCall("email", loc[p].email)
    /\ IF ~TrackEmailRateLimiting(loc[p].email)
       THEN /\ pc' = [pc EXCEPT ![p] = "done"]
            /\ loc' = [loc EXCEPT ![p].denied = TRUE]
            /\ resp' = [resp EXCEPT ![p] = Reply(429,
                           "too many verification attempts, please try again later",
                           NoBearer, 0)]
       ELSE /\ pc' = [pc EXCEPT ![p] = "vt_delete"]
            /\ UNCHANGED <<loc, resp>>
    /\ UNCHANGED <<blacklisted_tokens, now, users, refresh_tokens,
                   password_reset_tokens, email_verification_tokens, seq, tx,
                   faults, rotations>>

\* ------------------------------------------------- email verification
\* PostgresEmailVerificationStore.GetVerificationTokenByToken.
GetVerificationTokenByToken(token) ==
    {r \in email_verification_tokens : r.token = token}

\* PostgresEmailVerificationStore.DeleteToken:
\*   DELETE FROM email_verification_tokens WHERE id = $1
DeleteToken(rows, id) == {r \in rows : r.id # id}

\* PostgresUserStore.SetEmailVerified:
\*   UPDATE users SET email_verified = $1 WHERE user_id = $2
SetEmailVerified(rows, uid, verified) ==
    {IF u.user_id = uid THEN [u EXCEPT !.email_verified = verified] ELSE u :
         u \in rows}

\* What is kept of a finished confirmation.
VerifyEmailDone(l) ==
    [NoLoc EXCEPT !.op = "verify_email", !.token = l.token, !.row = l.row,
                  !.uid = l.uid, !.at = l.at, !.stage = l.stage,
                  !.fault = l.fault, !.replay = l.replay]

VerifyEmailReply(p, l, status, msg) ==
    /\ pc' = [pc EXCEPT ![p] = "done"]
    /\ loc' = [loc EXCEPT ![p] = VerifyEmailDone(l)]
    /\ resp' = [resp EXCEPT ![p] = Reply(status, msg, NoBearer, 0)]

\* VerifyEmail up to the expiry check: the token of the request (0 stands
\* for an empty one), GetVerificationTokenByToken, ExpiresAt.Before(now).
\* replay records that an earlier confirmation of the same token was
\* answered "email verified successfully".
VerifyEmailStart(p) ==
    /\ Idle(p)
    /\ \E token \in 0..seq, ok \in Outcomes :
        LET start == [NoLoc EXCEPT !.op = "verify_email", !.token = token,
                                   !.replay = token \in codes.verified]
            rows == GetVerificationTokenByToken(token)
        IN
        IF token = 0
        THEN /\ ok
             /\ VerifyEmailReply(p, start, 400, "token is required")
             /\ UNCHANGED faults
        ELSE
        /\ Inject(ok)
        /\ IF ~ok
           THEN VerifyEmailReply(p, [start EXCEPT !.fault = TRUE], 500,
                                 "internal server error")
           ELSE IF rows = {}
           THEN VerifyEmailReply(p, start, 404,
                                 "invalid or expired verification token")
           ELSE \E r \in rows :
                /\ pc' = [pc EXCEPT ![p] =
                       IF r.expires_at < now THEN "ve_expired"
                                             ELSE "ve_user"]
                /\ loc' = [loc EXCEPT ![p] =
                       [start EXCEPT !.row = r.id, !.uid = r.user_id,
                                     !.at = r.expires_at]]
                /\ resp' = [resp EXCEPT ![p] = NoResp]
    /\ UNCHANGED <<blacklisted_tokens, now, users, refresh_tokens,
                   password_reset_tokens, email_verification_tokens, limits,
                   seq, tx, rotations, codes>>

\* VerifyEmail, the expired branch: DeleteToken, whose error is only logged,
\* then 410.
VerifyEmailExpired(p) ==
    /\ pc[p] = "ve_expired"
    /\ \E ok \in Outcomes :
        /\ Inject(ok)
        /\ email_verification_tokens' =
               IF ok THEN DeleteToken(email_verification_tokens, loc[p].row)
                     ELSE email_verification_tokens
        /\ VerifyEmailReply(p, [loc[p] EXCEPT !.stage = "expired",
                                              !.fault = ~ok], 410,
               "verification link has expired, please request a new one")
    /\ UNCHANGED <<blacklisted_tokens, now, users, refresh_tokens,
                   password_reset_tokens, limits, seq, tx, rotations, codes>>

\* VerifyEmail: GetUserByID and the already-verified check.
VerifyEmailUser(p) ==
    /\ pc[p] = "ve_user"
    /\ \E ok \in Outcomes :
        LET found == GetUserByID(loc[p].uid) IN
        /\ Inject(ok)
        /\ IF ~ok \/ found = {}
           THEN VerifyEmailReply(p, [loc[p] EXCEPT !.fault = ~ok], 500,
                                 "internal server error")
           ELSE LET user == CHOOSE u \in found : TRUE IN
                /\ pc' = [pc EXCEPT ![p] =
                       IF user.email_verified THEN "ve_delete" ELSE "ve_set"]
                /\ loc' = [loc EXCEPT ![p].stage =
                       IF user.email_verified THEN "already" ELSE ""]
                /\ UNCHANGED resp
    /\ UNCHANGED <<blacklisted_tokens, now, users, refresh_tokens,
                   password_reset_tokens, email_verification_tokens, limits,
                   seq, tx, rotations, codes>>

\* VerifyEmail: SetEmailVerified(token.UserID, true).
VerifyEmailSet(p) ==
    /\ pc[p] = "ve_set"
    /\ \E ok \in Outcomes :
        /\ Inject(ok)
        /\ IF ~ok
           THEN /\ VerifyEmailReply(p, [loc[p] EXCEPT !.fault = TRUE], 500,
                                    "failed to verify email")
                /\ UNCHANGED users
           ELSE /\ users' = SetEmailVerified(users, loc[p].uid, TRUE)
                /\ pc' = [pc EXCEPT ![p] = "ve_delete"]
                /\ loc' = [loc EXCEPT ![p].stage = "verified"]
                /\ UNCHANGED resp
    /\ UNCHANGED <<blacklisted_tokens, now, refresh_tokens,
                   password_reset_tokens, email_verification_tokens, limits,
                   seq, tx, rotations, codes>>

\* VerifyEmail: the DeleteToken that follows the verification (or the
\* already-verified check), whose error is only logged, then 200.
VerifyEmailDelete(p) ==
    /\ pc[p] = "ve_delete"
    /\ \E ok \in Outcomes :
        /\ Inject(ok)
        /\ email_verification_tokens' =
               IF ok THEN DeleteToken(email_verification_tokens, loc[p].row)
                     ELSE email_verification_tokens
        /\ VerifyEmailReply(p, [loc[p] EXCEPT !.fault = ~ok], 200,
               IF loc[p].stage = "verified"
               THEN "email verified successfully"
               ELSE "email is already verified")
        /\ codes' = IF loc[p].stage = "verified"
                    THEN [codes EXCEPT !.verified = @ \cup {loc[p].token}]
                    ELSE codes
    /\ UNCHANGED <<blacklisted_tokens, now, users, refresh_tokens,
                   password_reset_tokens, limits, seq, tx, rotations>>

\* ---------------------------------------------------- password reset store
\* PostgresPasswordResetStore.DeleteUserTokens:
\*   DELETE FROM password_reset_tokens WHERE user_id = $1
DeleteUserTokensKeep(rows, uid) == rows
DeleteUserTokens(rows, uid) == {r \in rows : r.user_id # uid}

\* The row CreatePasswordResetToken inserts.
NewPasswordResetToken(id, uid, otp) ==
    [id |-> id, user_id |-> uid, token |-> otp,
     expires_at |-> now + OTPExpiry, used |-> FALSE]

\* PostgresPasswordResetStore.GetPasswordResetTokenByToken: the rows a
\* SELECT ... WHERE token = $1 may hand to QueryRow.
GetPasswordResetTokenByToken(otp) ==
    {r \in password_reset_tokens : r.token = otp}

\* --------------------------------------- reset code request and resend
\* What is kept of a finished code request.
ResetCodeDone(l) ==
    [NoLoc EXCEPT !.op = l.op, !.email = l.email, !.uid = l.uid,
                  !.row = l.row, !.otp = l.otp, !.fault = l.fault,
                  !.denied = l.denied, !.mail = l.mail]

ResetCodeMessage(op) ==
    IF op = "request_reset"
    THEN "if your email is registered, we've sent a password reset code"
    ELSE "if your email is registered, we've sent a new password reset code"

\* The answer to a request whose email belongs to no user.
UnknownEmailReplyNotFound(op) == Reply(404, "user not found", NoBearer, 0)
UnknownEmailReply(op) == Reply(200, ResetCodeMessage(op), NoBearer, 0)

\* RequestPasswordReset / ResendOTP up to the email rate limiter, entered
\* from the group's middleware: ShouldBindJSON (bound is false for an empty
\* body, whose decoding error reads "EOF"), normalisation, validation,
\* TrackEmailRateLimiting.
ResetCodeStart(p, op) ==
    /\ pc[p] = "pr_next"
    /\ \E bound \in BOOLEAN, rawEmail \in ResetEmails :
        LET email == ToLower(rawEmail)
            start == [NoLoc EXCEPT !.op = op, !.email = email]
            answer(l, reply) ==
                /\ pc' = [pc EXCEPT ![p] = "done"]
                /\ loc' = [loc EXCEPT ![p] = l]
                /\ resp' = [resp EXCEPT ![p] = reply]
        IN
        IF ~bound
        THEN /\ answer([NoLoc EXCEPT !.op = op],
                        Reply(400, "EOF", NoBearer, 0))
             /\ UNCHANGED <<limits, codes>>
        ELSE IF ~IsValidEmail(email)
        THEN /\ answer(start, Reply(400, "invalid email format", NoBearer, 0))
             /\ UNCHANGED <<limits, codes>>
        ELSE /\ LimiterCall("email", email)
             /\ IF ~TrackEmailRateLimiting(email)
                THEN answer([start EXCEPT !.denied = TRUE],
                            Reply(200, ResetCodeMessage(op), NoBearer, 0))
                ELSE /\ pc' = [pc EXCEPT ![p] = "pr_user"]
                     /\ loc' = [loc EXCEPT ![p] = start]
                     /\ resp' = [resp EXCEPT ![p] = NoResp]
    /\ UNCHANGED <<blacklisted_tokens,
                   now, users, refresh_tokens, password_reset_tokens,
                   email_verification_tokens, seq, tx, faults, rotations>>

\* RequestPasswordReset / ResendOTP: h.UserStore.GetUserByEmail and the
\* answers that follow it.
ResetCodeGetUser(p) ==
    /\ pc[p] = "pr_user"
    /\ \E ok \in Outcomes :
        LET found == GetUserByEmail(loc[p].email)
            answer(l, reply) ==
                /\ pc' = [pc EXCEPT ![p] = "done"]
                /\ loc' = [loc EXCEPT ![p] = l]
                /\ resp' = [resp EXCEPT ![p] = reply]
        IN
        /\ Inject(ok)
        /\ IF ~ok
           THEN answer([loc[p] EXCEPT !.fault = TRUE],
                       Reply(500, "internal server error", NoBearer, 0))
           ELSE IF found = {}
           THEN answer(loc[p], UnknownEmailReply(loc[p].op))
           ELSE LET user == CHOOSE u \in found : TRUE IN
                /\ pc' = [pc EXCEPT ![p] = "pr_delete"]
                /\ loc' = [loc EXCEPT ![p].uid = user.user_id]
                /\ UNCHANGED resp
    /\ UNCHANGED <<blacklisted_tokens,
                   now, users, refresh_tokens, password_reset_tokens,
                   email_verification_tokens, limits, seq, tx, rotations, codes>>

\* AuthHandler.RequestPasswordReset.
RequestPasswordReset(p) == ResetCodeStart(p, "request_reset")
\* AuthHandler.ResendOTP.
ResendOTP(p) == ResetCodeStart(p, "resend_otp")

\* CreatePasswordResetToken, first statement: s.DeleteUserTokens(userID).
\* The rows it matches are replaced codes from here on.  The DELETE waits
\* for a row an open transaction has written.
ResetCodeDelete(p) ==
    /\ pc[p] = "pr_delete"
    /\ \A q \in Procs \ {p} : \A r \in password_reset_tokens :
           r.user_id = loc[p].uid => r.id \notin tx[q].used
    /\ \E ok \in Outcomes :
        /\ Inject(ok)
        /\ IF ~ok
           THEN /\ pc' = [pc EXCEPT ![p] = "done"]
                /\ loc' = [loc EXCEPT ![p] =
                       ResetCodeDone([loc[p] EXCEPT !.fault = TRUE])]
                /\ resp' = [resp EXCEPT ![p] =
                       Reply(500, "failed to create reset token", NoBearer, 0)]
                /\ UNCHANGED <<password_reset_tokens, codes>>
           ELSE /\ password_reset_tokens' =
                       DeleteUserTokens(password_reset_tokens, loc[p].uid)
                /\ codes' = [codes EXCEPT !.superseded = @ \cup
                       {r.id : r \in {x \in password_reset_tokens :
                                          x.user_id = loc[p].uid}}]
                /\ pc' = [pc EXCEPT ![p] = "pr_insert"]
                /\ UNCHANGED <<loc, resp>>
    /\ UNCHANGED <<blacklisted_tokens,
                   now, users, refresh_tokens, email_verification_tokens,
                   limits, seq, tx, rotations>>

\* CreatePasswordResetToken, generateOTP and the INSERT, then the answer.
ResetCodeInsert(p) ==
    /\ pc[p] = "pr_insert"
    /\ pc' = [pc EXCEPT ![p] = "done"]
    /\ \E otp \in OTPs, ok \in Outcomes :
        /\ Inject(ok)
        /\ IF ~ok
           THEN /\ loc' = [loc EXCEPT ![p] =
                       ResetCodeDone([loc[p] EXCEPT !.fault = TRUE])]
                /\ resp' = [resp EXCEPT ![p] =
                       Reply(500, "failed to create reset token", NoBearer, 0)]
                /\ UNCHANGED <<password_reset_tokens, seq>>
           ELSE /\ seq < MaxSeq
                /\ seq' = seq + 1
                /\ password_reset_tokens' = password_reset_tokens \cup
                       {NewPasswordResetToken(seq + 1, loc[p].uid, otp)}
                /\ loc' = [loc EXCEPT ![p] =
                       ResetCodeDone([loc[p] EXCEPT !.row = seq + 1,
                                                    !.otp = otp,
                                                    !.mail = loc[p].email])]
                /\ resp' = [resp EXCEPT ![p] =
                       Reply(200, ResetCodeMessage(loc[p].op), NoBearer, 0)]
    /\ UNCHANGED <<blacklisted_tokens,
                   now, users, refresh_tokens, email_verification_tokens,
                   limits, tx, rotations, codes>>

\* ------------------------------------------------ reset code confirmation
\* token == nil after GetPasswordResetTokenByToken.
NoToken == [id |-> 0, user_id |-> 0, token |-> 0, expires_at |-> 0,
            used |-> FALSE]

\* The handler's check of the row it looked up:
\*   token == nil || token.UserID != user.UserID || token.Used ||
\*   token.ExpiresAt.Before(time.Now())
OTPRejectedIgnoringUsed(token, uid) ==
    \/ token = NoToken
    \/ token.user_id # uid
    \/ token.expires_at < now
OTPRejectedIgnoringOwner(token, uid) ==
    \/ token = NoToken
    \/ token.used
    \/ token.expires_at < now
OTPRejected(token, uid) ==
    \/ token = NoToken
    \/ token.user_id # uid
    \/ token.used
    \/ token.expires_at < now

UpdatePasswordHashUnverifying(rows, uid, password) ==
    {IF u.user_id = uid
     THEN [u EXCEPT !.password_hash = SetPassword(password),
                    !.email_verified = FALSE]
     ELSE u : u \in rows}

\* ResetPasswordTransaction, first UPDATE: the user's password digest.
UpdatePasswordHash(rows, uid, password) ==
    {IF u.user_id = uid
     THEN [u EXCEPT !.password_hash = SetPassword(password)] ELSE u :
         u \in rows}

\* ResetPasswordTransaction, second UPDATE: used = true WHERE id = $1.
MarkTokenAsUsed(rows, id) ==
    {IF r.id = id THEN [r EXCEPT !.used = TRUE] ELSE r : r \in rows}

\* What is kept of a finished confirmation.
VerifyDone(l) ==
    [NoLoc EXCEPT !.op = "verify_otp", !.email = l.email, !.uid = l.uid,
                  !.otp = l.otp, !.row = l.row, !.fault = l.fault, !.stage = l.stage,
                  !.denied = l.denied,
                  !.replay = l.replay, !.used = l.used, !.pre = l.pre,
                  !.live = l.live, !.password = l.password,
                  !.recorded = l.recorded]

\* VerifyOTPAndResetPassword up to the email rate limiter, entered from the
\* group's middleware: ShouldBindJSON (bound is false for an empty body),
\* normalisation, the three validations, TrackEmailRateLimiting.  replay/used
\* record which rows earlier confirmations of the same (email, code) have
\* consumed.
VerifyStart(p) ==
    /\ pc[p] = "pr_next"
    /\ \E bound \in BOOLEAN :
        IF ~bound
        THEN /\ pc' = [pc EXCEPT ![p] = "done"]
             /\ loc' = [loc EXCEPT ![p] =
                    [NoLoc EXCEPT !.op = "verify_otp",
                                  !.recorded = loc[p].recorded]]
             /\ resp' = [resp EXCEPT ![p] = Reply(400, "EOF", NoBearer, 0)]
             /\ UNCHANGED <<limits, codes>>
        ELSE
        \E rawEmail \in ResetEmails, otp \in OTPs \cup {0} :
        LET email == ToLower(rawEmail)
            start == [NoLoc EXCEPT !.op = "verify_otp", !.otp = otp,
                                   !.recorded = loc[p].recorded]
            used == {h[3] : h \in {x \in codes.consumed :
                                x[2] = otp /\ \E u \in users :
                                    u.email = email /\ u.user_id = x[1]}}
            mine == [start EXCEPT !.email = email, !.used = used,
                                  !.replay = (used # {}),
                                  !.recorded = loc[p].recorded
                                                   \/ limits' # limits]
            answer(l, status, msg) ==
                /\ pc' = [pc EXCEPT ![p] = "done"]
                /\ loc' = [loc EXCEPT ![p] = VerifyDone(l)]
                /\ resp' = [resp EXCEPT ![p] = Reply(status, msg, NoBearer, 0)]
        IN
        IF ~IsValidEmail(email)
        THEN answer(start, 400, "invalid email format")
             /\ UNCHANGED <<limits, codes>>
        ELSE IF otp = 0
        THEN answer(start, 400, "invalid OTP format")
             /\ UNCHANGED <<limits, codes>>
        ELSE \E password \in ResetPasswords :
        IF ~IsStrongPassword(password)
        THEN /\ answer(start, 400,
                 "password must be at least 8 characters with a number and symbol")
             /\ UNCHANGED <<limits, codes>>
        ELSE
        /\ LimiterCall("email", email)
        /\ IF ~TrackEmailRateLimiting(email)
           THEN answer([mine EXCEPT !.denied = TRUE], 429,
                    "too many password reset attempts, please try again later")
           ELSE /\ pc' = [pc EXCEPT ![p] = "vo_user"]
                /\ loc' = [loc EXCEPT ![p] =
                       [mine EXCEPT !.password = password]]
                /\ resp' = [resp EXCEPT ![p] = NoResp]
    /\ UNCHANGED <<blacklisted_tokens,
                   now, users, refresh_tokens, password_reset_tokens,
                   email_verification_tokens, seq, tx, faults, rotations>>

\* VerifyOTPAndResetPassword: h.UserStore.GetUserByEmail.
VerifyGetUser(p) ==
    /\ pc[p] = "vo_user"
    /\ \E ok \in Outcomes :
        LET found == GetUserByEmail(loc[p].email)
            answer(l, status, msg) ==
                /\ pc' = [pc EXCEPT ![p] = "done"]
                /\ loc' = [loc EXCEPT ![p] = VerifyDone(l)]
                /\ resp' = [resp EXCEPT ![p] = Reply(status, msg, NoBearer, 0)]
        IN
        /\ Inject(ok)
        /\ IF ~ok
           THEN answer([loc[p] EXCEPT !.fault = TRUE, !.password = ""], 500,
                       "internal server error")
           ELSE IF found = {}
           THEN answer([loc[p] EXCEPT !.password = ""], 404, "user not found")
           ELSE LET user == CHOOSE u \in found : TRUE IN
                /\ pc' = [pc EXCEPT ![p] = "vo_token"]
                /\ loc' = [loc EXCEPT ![p].uid = user.user_id]
                /\ UNCHANGED resp
    /\ UNCHANGED <<blacklisted_tokens,
                   now, users, refresh_tokens, password_reset_tokens,
                   email_verification_tokens, limits, seq, tx, rotations, codes>>

\* VerifyOTPAndResetPassword: GetPasswordResetTokenByToken and the check of
\* the row it returned, which reads the clock again.
VerifyGetToken(p) ==
    /\ pc[p] = "vo_token"
    /\ \E ok \in Outcomes :
        LET uid == loc[p].uid
            otp == loc[p].otp
            mine == loc[p]
            rows == GetPasswordResetTokenByToken(otp)
            answer(l, status, msg) ==
                /\ pc' = [pc EXCEPT ![p] = "done"]
                /\ loc' = [loc EXCEPT ![p] = VerifyDone(l)]
                /\ resp' = [resp EXCEPT ![p] = Reply(status, msg, NoBearer, 0)]
        IN
        /\ Inject(ok)
        /\ IF ~ok
           THEN answer([mine EXCEPT !.fault = TRUE, !.password = ""], 500,
                       "internal server error")
           ELSE \E token \in (IF rows = {} THEN {NoToken} ELSE rows) :
                LET l == [mine EXCEPT !.row = token.id,
                                      !.stale = token.id \in codes.superseded]
                IN
                IF OTPRejected(token, uid)
                THEN answer([l EXCEPT !.password = ""], 400,
                            "invalid or expired OTP")
                ELSE /\ pc' = [pc EXCEPT ![p] = "vo_reset"]
                     /\ loc' = [loc EXCEPT ![p] = l]
                     /\ resp' = [resp EXCEPT ![p] = NoResp]
    /\ UNCHANGED <<blacklisted_tokens,
                   now, users, refresh_tokens, password_reset_tokens,
                   email_verification_tokens, limits, seq, tx, rotations, codes>>

\* tx.Exec(UPDATE users SET password_hash ...): the write is held by the
\* transaction until it commits.
UpdatePasswordAutocommit(committed, pending, uid, password) ==
    [committed |-> UpdatePasswordHash(committed, uid, password),
     pending |-> pending]
UpdatePasswordInTransaction(committed, pending, uid, password) ==
    [committed |-> committed, pending |-> pending \cup {<<uid, password>>}]

\* tx.Commit() applied to the statements the transaction holds: its UPDATE
\* of users and its UPDATE of password_reset_tokens.
CommitPasswords(rows, pending) ==
    IF pending = {} THEN rows
    ELSE LET w == CHOOSE x \in pending : TRUE
         IN UpdatePasswordHash(rows, w[1], w[2])
CommitUsed(rows, pending) ==
    IF pending = {} THEN rows
    ELSE MarkTokenAsUsed(rows, CHOOSE id \in pending : TRUE)

\* An UPDATE waits while another open transaction holds a write on the row.
UserRowLocked(p, uid) ==
    \E q \in Procs \ {p} : \E w \in tx[q].password : w[1] = uid
TokenRowLocked(p, ids) ==
    \E q \in Procs \ {p} : tx[q].used \cap ids # {}

\* ResetPasswordTransaction returned an error: the deferred tx.Rollback()
\* and the handler's 500.
VerifyResetFail(p) ==
    /\ pc' = [pc EXCEPT ![p] = "done"]
    /\ loc' = [loc EXCEPT ![p] = VerifyDone([loc[p] EXCEPT !.fault = TRUE])]
    /\ resp' = [resp EXCEPT ![p] =
           Reply(500, "failed to complete password reset", NoBearer, 0)]
    /\ tx' = [tx EXCEPT ![p] = NoTx]

\* ResetPasswordTransaction(token.ID, user.UserID, password): s.db.Begin()
\* and the first statement, UPDATE users through tx.
VerifyResetPassword(p) ==
    /\ pc[p] = "vo_reset"
    /\ ~UserRowLocked(p, loc[p].uid)
    /\ \E ok \in Outcomes :
        /\ Inject(ok)
        /\ IF ~ok
           THEN VerifyResetFail(p) /\ UNCHANGED users
           ELSE LET w == UpdatePasswordInTransaction(users, tx[p].password,
                                                     loc[p].uid, loc[p].password)
                IN
                /\ users' = w.committed
                /\ tx' = [tx EXCEPT ![p] =
                       [NoTx EXCEPT !.open = TRUE, !.password = w.pending]]
                /\ pc' = [pc EXCEPT ![p] = "vo_mark"]
                /\ loc' = [loc EXCEPT ![p].stage = "password"]
                /\ UNCHANGED resp
    /\ UNCHANGED <<blacklisted_tokens,
                   now, refresh_tokens, password_reset_tokens,
                   email_verification_tokens, limits, seq, rotations, codes>>

\* ResetPasswordTransaction, second statement:
\*   tx.Exec(UPDATE password_reset_tokens SET used = true WHERE id = $1)
VerifyResetMark(p) ==
    /\ pc[p] = "vo_mark"
    /\ ~TokenRowLocked(p, {loc[p].row})
    /\ \E ok \in Outcomes :
        /\ Inject(ok)
        /\ IF ~ok
           THEN VerifyResetFail(p)
           ELSE /\ tx' = [tx EXCEPT ![p].used = @ \cup {loc[p].row}]
                /\ pc' = [pc EXCEPT ![p] = "vo_commit"]
                /\ loc' = [loc EXCEPT ![p].stage = "mark"]
                /\ UNCHANGED resp
    /\ UNCHANGED <<blacklisted_tokens,
                   now, users, refresh_tokens, password_reset_tokens,
                   email_verification_tokens, limits, seq, rotations, codes>>

\* ResetPasswordTransaction, tx.Commit(): both writes become visible
\* together, or the deferred Rollback discards both.
VerifyResetCommit(p) ==
    /\ pc[p] = "vo_commit"
    /\ \E ok \in Outcomes :
        /\ Inject(ok)
        /\ IF ~ok
           THEN VerifyResetFail(p)
                /\ UNCHANGED <<users, password_reset_tokens, codes>>
           ELSE /\ users' = CommitPasswords(users, tx[p].password)
                /\ password_reset_tokens' =
                       CommitUsed(password_reset_tokens, tx[p].used)
                /\ codes' = [codes EXCEPT !.reset = @ \cup tx[p].used]
                /\ tx' = [tx EXCEPT ![p] = NoTx]
                /\ pc' = [pc EXCEPT ![p] = "vo_revoke"]
                /\ loc' = [loc EXCEPT ![p].stage = "reset"]
                /\ UNCHANGED resp
    /\ UNCHANGED <<blacklisted_tokens,
                   now, refresh_tokens, email_verification_tokens, limits,
                   seq, rotations>>

\* The answer of a confirmation whose transaction committed, given how
\* the revoke-all that follows went.
ResetReplyOnError(ok) ==
    IF ok THEN Reply(200, "password reset successful", NoBearer, 0)
    ELSE Reply(500, "failed to complete password reset", NoBearer, 0)
ResetReply(ok) == Reply(200, "password reset successful", NoBearer, 0)

\* h.JWTService.RevokeAllUserRefreshTokens(user.UserID), whose error is
\* only logged, and the 200 answer.  pre: the user's tokens in the ledger
\* when the DELETE ran; live: her unexpired tokens when the answer is sent.
VerifyRevoke(p) ==
    /\ pc[p] = "vo_revoke"
    /\ \E ok \in Outcomes :
        LET after == IF ok
                     THEN RevokeAllUserRefreshTokens(refresh_tokens, loc[p].uid)
                     ELSE refresh_tokens
        IN
        /\ Inject(ok)
        /\ refresh_tokens' = after
        /\ pc' = [pc EXCEPT ![p] = "done"]
        /\ loc' = [loc EXCEPT ![p] = VerifyDone(
               [loc[p] EXCEPT
                   !.fault = ~ok,
                   !.stage = "revoke",
                   !.pre = {r.token : r \in {x \in refresh_tokens :
                                                 x.user_id = loc[p].uid}},
                   !.live = {r.token : r \in {x \in after :
                                 x.user_id = loc[p].uid /\ x.expires_at > now
                                 /\ ~x.revoked}}])]
        /\ resp' = [resp EXCEPT ![p] = ResetReply(ok)]
        /\ codes' = [codes EXCEPT !.consumed = @ \cup
               {<<loc[p].uid, loc[p].otp, loc[p].row>>}]
    /\ UNCHANGED <<blacklisted_tokens, now, users, password_reset_tokens,
                   email_verification_tokens, limits, seq, tx, rotations>>

\* ------------------------------------------------------- profile update
\* Bodies of PUT /users/me: the username field (NoField when the body has
\* none) and whether another profile field (bio, names, picture) is present.
NoField == "<nil>"
UpdateUsernames == {NoField, "", "bob", "Admin"}

\* PostgresUserStore.IsUsernameTaken:
\*   SELECT COUNT(*) FROM users WHERE username = $1 AND user_id != $2
IsUsernameTaken(username, excludeUserID) ==
    \E u \in users : u.username = username /\ u.user_id # excludeUserID

\* An answer of UserHandler.UpdateUser.
UpdateUserReply(p, l, status, msg) ==
    /\ pc' = [pc EXCEPT ![p] = "done"]
    /\ loc' = [loc EXCEPT ![p] = l]
    /\ resp' = [resp EXCEPT ![p] = Reply(status, msg, NoBearer, 0)]

\* UserHandler.UpdateUser up to the username checks: the user id of the
\* access token's claims, the body, GetUserByID, the validation of the
\* username.
UpdateUser(p) ==
    /\ Idle(p)
    /\ \E uid \in {u.user_id : u \in users} \cup {9}, ok \in Outcomes :
        LET found == GetUserByID(uid)
            start == [NoLoc EXCEPT !.op = "update_user", !.uid = uid]
        IN
        /\ Inject(ok)
        /\ IF ~ok
           THEN UpdateUserReply(p, [start EXCEPT !.fault = TRUE], 500,
                                "internal server error")
           ELSE IF found = {}
           THEN UpdateUserReply(p, start, 404, "user not found")
           ELSE \E username \in UpdateUsernames :
           IF username = NoField
                   \/ \E u \in found : u.username = username
           THEN \E profile \in BOOLEAN :
                IF profile
                THEN /\ pc' = [pc EXCEPT ![p] = "uu_update"]
                     /\ loc' = [loc EXCEPT ![p] = start]
                     /\ resp' = [resp EXCEPT ![p] = NoResp]
                ELSE UpdateUserReply(p, start, 200, "no changes to update")
           ELSE IF username = ""
           THEN UpdateUserReply(p, start, 400, "username cannot be empty")
           ELSE IF ~IsValidUsername(username)
           THEN UpdateUserReply(p, start, 400, "invalid username format")
           ELSE IF IsReservedUsername(username)
           THEN UpdateUserReply(p, start, 400, "username not allowed")
           ELSE /\ pc' = [pc EXCEPT ![p] = "uu_taken"]
                /\ loc' = [loc EXCEPT ![p] = [start EXCEPT !.username = username]]
                /\ resp' = [resp EXCEPT ![p] = NoResp]
    /\ UNCHANGED <<blacklisted_tokens, now, users, refresh_tokens,
                   password_reset_tokens, email_verification_tokens, limits,
                   seq, tx, rotations, codes>>

\* h.UserStore.IsUsernameTaken(username, userID) for a username that differs
\* from the current one.
UpdateUserTaken(p) ==
    /\ pc[p] = "uu_taken"
    /\ \E ok \in Outcomes :
        /\ Inject(ok)
        /\ IF ~ok
           THEN UpdateUserReply(p, [loc[p] EXCEPT !.fault = TRUE], 500,
                                "internal server error")
           ELSE IF IsUsernameTaken(loc[p].username, loc[p].uid)
           THEN UpdateUserReply(p, [loc[p] EXCEPT !.dup = TRUE], 409,
                                "username already taken")
           ELSE /\ pc' = [pc EXCEPT ![p] = "uu_update"]
                /\ UNCHANGED <<loc, resp>>
    /\ UNCHANGED <<blacklisted_tokens, now, users, refresh_tokens,
                   password_reset_tokens, email_verification_tokens, limits,
                   seq, tx, rotations, codes>>

\* PostgresUserStore.UpdateUser: UPDATE users SET ... WHERE user_id = $n
\* RETURNING ...; username is among the columns when the body changed it.
UpdateUserRow(rows, uid, username) ==
    {IF u.user_id = uid /\ username # ""
     THEN [u EXCEPT !.username = username] ELSE u : u \in rows}

\* h.UserStore.UpdateUser(userID, changes): a failed statement, a violated
\* users_username_key and a missing row all come back as an error.
UpdateUserUpdate(p) ==
    /\ pc[p] = "uu_update"
    /\ \E ok \in Outcomes :
        LET others == {u \in users : u.user_id # loc[p].uid}
            clash == /\ loc[p].username # ""
                     /\ users_username_key(others,
                                           [username |-> loc[p].username])
        IN
        /\ Inject(ok)
        /\ IF ~ok \/ clash \/ GetUserByID(loc[p].uid) = {}
           THEN /\ UpdateUserReply(p, [loc[p] EXCEPT !.fault = ~ok,
                                                      !.dup = ok /\ clash],
                                   500, "failed to update user profile")
                /\ UNCHANGED users
           ELSE /\ users' = UpdateUserRow(users, loc[p].uid, loc[p].username)
                /\ UpdateUserReply(p, loc[p], 200,
                                   "profile updated successfully")
    /\ UNCHANGED <<blacklisted_tokens, now, refresh_tokens,
                   password_reset_tokens, email_verification_tokens, limits,
                   seq, tx, rotations, codes>>

\* ------------------------------------------------ authenticated password change
\* PostgresUserStore.UpdatePassword: UPDATE users SET password_hash = $1
\* WHERE user_id = $2, on the pool handle.
UpdatePassword(rows, uid, password) == UpdatePasswordHash(rows, uid, password)

\* What is kept of a finished password change.
UpdatePasswordDone(l) ==
    [NoLoc EXCEPT !.op = "update_password", !.uid = l.uid,
                  !.password = l.password, !.fault = l.fault,
                  !.stage = l.stage, !.pre = l.pre, !.live = l.live]

\* An answer of UserHandler.UpdatePassword after db.Begin(): with an error
\* the deferred tx.Rollback() runs.
UpdatePasswordReply(p, l, status, msg) ==
    /\ pc' = [pc EXCEPT ![p] = "done"]
    /\ loc' = [loc EXCEPT ![p] = UpdatePasswordDone(l)]
    /\ resp' = [resp EXCEPT ![p] = Reply(status, msg, NoBearer, 0)]
    /\ tx' = [tx EXCEPT ![p] = NoTx]

\* UserHandler.UpdatePassword up to db.Begin(): the user id of the access
\* token's claims, GetUserByID, the current-password check, validation.
UpdatePasswordStart(p) ==
    /\ Idle(p)
    /\ \E uid \in {u.user_id : u \in users} \cup {9} :
        LET found == GetUserByID(uid)
            start == [NoLoc EXCEPT !.op = "update_password"]
            answer(status, msg) ==
                /\ pc' = [pc EXCEPT ![p] = "done"]
                /\ loc' = [loc EXCEPT ![p] = start]
                /\ resp' = [resp EXCEPT ![p] = Reply(status, msg, NoBearer, 0)]
                /\ UNCHANGED tx
        IN
        IF found = {} THEN answer(404, "user not found")
        ELSE \E current \in Passwords :
        IF \E u \in found : ~CheckPassword(u.password_hash, current)
        THEN answer(401, "invalid current password")
        ELSE \E password \in Passwords \cup {"weak"} :
        IF ~IsStrongPassword(password)
        THEN answer(400,
                 "password must be at least 8 characters with a number and symbol")
        ELSE IF current = password
        THEN answer(400, "new password must be different from current password")
        ELSE /\ pc' = [pc EXCEPT ![p] = "up_update"]
             /\ loc' = [loc EXCEPT ![p] =
                    [start EXCEPT !.uid = uid, !.password = password]]
             /\ resp' = [resp EXCEPT ![p] = NoResp]
             /\ tx' = [tx EXCEPT ![p] = [NoTx EXCEPT !.open = TRUE]]
    /\ UNCHANGED <<blacklisted_tokens,
                   now, users, refresh_tokens, password_reset_tokens,
                   email_verification_tokens, limits, seq, faults, rotations,
                   codes>>

\* h.UserStore.UpdatePassword(userID, req.Password): a statement on the pool
\* handle, outside the transaction that was begun.
UpdatePasswordUpdate(p) ==
    /\ pc[p] = "up_update"
    /\ \E ok \in Outcomes :
        /\ Inject(ok)
        /\ IF ~ok
           THEN /\ UpdatePasswordReply(p, [loc[p] EXCEPT !.fault = TRUE],
                                       500, "failed to update password")
                /\ UNCHANGED users
           ELSE /\ users' = UpdatePassword(users, loc[p].uid, loc[p].password)
                /\ pc' = [pc EXCEPT ![p] = "up_revoke"]
                /\ loc' = [loc EXCEPT ![p].stage = "update"]
                /\ UNCHANGED <<tx, resp>>
    /\ UNCHANGED <<blacklisted_tokens,
                   now, refresh_tokens, password_reset_tokens,
                   email_verification_tokens, limits, seq, rotations, codes>>

\* h.JWTService.RevokeAllUserRefreshTokens(userID), again on the pool
\* handle; its error is logged and the handler goes on.  pre: the user's
\* tokens when the DELETE ran; live: those of them still in the ledger.
UpdatePasswordRevoke(p) ==
    /\ pc[p] = "up_revoke"
    /\ \E ok \in Outcomes :
        LET after == IF ok
                     THEN RevokeAllUserRefreshTokens(refresh_tokens, loc[p].uid)
                     ELSE refresh_tokens
        IN
        /\ Inject(ok)
        /\ refresh_tokens' = after
        /\ pc' = [pc EXCEPT ![p] = "up_commit"]
        /\ loc' = [loc EXCEPT
               ![p].fault = ~ok,
               ![p].stage = "revoke",
               ![p].pre = {r.token : r \in {x \in refresh_tokens :
                                                x.user_id = loc[p].uid}},
               ![p].live = {r.token : r \in {x \in after :
                                                 x.user_id = loc[p].uid}}]
    /\ UNCHANGED <<blacklisted_tokens, now, users, password_reset_tokens,
                   email_verification_tokens, limits, seq, tx, resp,
                   rotations, codes>>

\* tx.Commit() of the transaction, which holds no statement, and the answer.
UpdatePasswordCommit(p) ==
    /\ pc[p] = "up_commit"
    /\ \E ok \in Outcomes :
        /\ Inject(ok)
        /\ IF ~ok
           THEN UpdatePasswordReply(p, [loc[p] EXCEPT !.stage = "rollback"],
                                    500, "database error")
           ELSE UpdatePasswordReply(p, [loc[p] EXCEPT !.stage = "commit"],
                                    200, "password updated successfully")
    /\ UNCHANGED <<blacklisted_tokens,
                   now, users, refresh_tokens, password_reset_tokens,
                   email_verification_tokens, limits, seq, rotations, codes>>

\* ------------------------------------------------------------------ logout
\* The answer of LogoutUser after RevokeRefreshToken returned err (nil or
\* not): the error is only logged.
LogoutReply(err) == Reply(200, "logout successful", NoBearer, 0)

\* AuthHandler.LogoutUser: -1 stands for a body that does not bind, 0 for an
\* empty refresh_token.
LogoutUser(p) ==
    /\ Idle(p)
    /\ pc' = [pc EXCEPT ![p] = "done"]
    /\ \E token \in -1..seq :
        LET start == [NoLoc EXCEPT !.op = "logout", !.token = token] IN
        IF token = -1
        THEN /\ resp' = [resp EXCEPT ![p] =
                    Reply(400, "missing refresh token", NoBearer, 0)]
             /\ loc' = [loc EXCEPT ![p] = start]
             /\ UNCHANGED <<refresh_tokens, faults>>
        ELSE IF token = 0
        THEN /\ resp' = [resp EXCEPT ![p] = Reply(200, "no active session", NoBearer, 0)]
             /\ loc' = [loc EXCEPT ![p] = start]
             /\ UNCHANGED <<refresh_tokens, faults>>
        ELSE \E ok \in Outcomes :
             /\ Inject(ok)
             /\ refresh_tokens' =
                    IF ok THEN DeleteRefreshToken(refresh_tokens, token)
                    ELSE refresh_tokens
             /\ loc' = [loc EXCEPT ![p] =
                    [start EXCEPT !.fault = ~ok,
                                  !.found = GetRefreshToken(token) # {},
                                  !.revoked = ok /\ RevokeFound(refresh_tokens,
                                                                token)]]
             /\ resp' = [resp EXCEPT ![p] =
                    LogoutReply(~ok \/ ~RevokeFound(refresh_tokens, token))]
    /\ UNCHANGED <<blacklisted_tokens, now, users, password_reset_tokens,
                   email_verification_tokens, limits, seq, tx, rotations, codes>>

\* ----------------------------------------------------------- access tokens
\* Bearer tokens a client may present: the tokens this service signed now
\* and one AccessTokenDuration ago, a token signed with another key, a
\* malformed string.
PresentedTokens ==
    {SignedAccessToken(Alice, iat, AccessTokenSecret) :
        iat \in (now - AccessTokenDuration)..now}
    \cup {SignedAccessToken(Alice, 0, "other_secret"), MalformedToken}

\* jwt.ParseWithClaims(tokenString, &CustomClaims{}, keyFunc): the error it
\* returns ("" for nil).  The string must have three segments; keyFunc
\* refuses a header whose alg is not an HMAC method and hands out
\* AccessTokenSecret; the signature is recomputed over the signing string
\* and compared; then the registered claims are validated against the
\* clock: exp must be after now, nbf and iat not after it.
ParseWithClaims(tok) ==
    IF tok.segments # 3 THEN "token is malformed"
    ELSE IF tok.header.alg \notin {"HS256", "HS384", "HS512"}
    THEN "token is unverifiable"
    ELSE IF tok.signature #
            HMACSHA256(AccessTokenSecret,
                       SigningString(tok.header, tok.claims))
    THEN "token signature is invalid"
    ELSE IF ~(now < tok.claims.exp) THEN "token is expired"
    ELSE IF now < tok.claims.nbf THEN "token is not valid yet"
    ELSE IF now < tok.claims.iat THEN "token used before issued"
    ELSE ""

\* PostgresTokenBlacklistStore.IsBlacklisted:
\*   SELECT EXISTS(... WHERE token = $1 AND expires_at > $2)
IsBlacklisted(tok) ==
    \E r \in blacklisted_tokens : r.token = tok /\ r.expires_at > now

\* JWTService.ValidateAccessToken: the error it returns ("" for nil), given
\* what the blacklist lookup returned.
ValidateAccessTokenUnlisted(tok, isBlacklisted) ==
    IF ParseWithClaims(tok) # ""
    THEN "invalid token: " \o ParseWithClaims(tok)
    ELSE ""
ValidateAccessToken(tok, isBlacklisted) ==
    IF isBlacklisted THEN "token is revoked"
    ELSE IF ParseWithClaims(tok) # ""
    THEN "invalid token: " \o ParseWithClaims(tok)
    ELSE ""

\* The *CustomClaims ValidateAccessToken returns with a nil error: the
\* claims object decoded into the struct by its json tags (UserID, Username,
\* Email, RegisteredClaims.Subject).
ValidatedClaims(tok) ==
    [user_id |-> tok.claims.user_id, username |-> tok.claims.username,
     email |-> tok.claims.email, subject |-> tok.claims.sub]

\* What ValidateAccessToken takes from tokenBlacklistStore.IsBlacklisted:
\* on a store error the method returns (false, err), the error is logged
\* and the validation goes on.
IsBlacklistedFailClosed(tok, ok) == ~ok \/ IsBlacklisted(tok)
IsBlacklistedOrError(tok, ok) == ok /\ IsBlacklisted(tok)

\* JWTAuthMiddleware: the Authorization header, then
\* ValidateAccessToken; a failed blacklist lookup is logged and counts as
\* "not blacklisted".  listed: whether the blacklist held the token.
JWTAuthMiddleware(p) ==
    /\ Idle(p)
    /\ pc' = [pc EXCEPT ![p] = "done"]
    /\ \E tok \in PresentedTokens \cup {NoBearer} :
        LET start == [NoLoc EXCEPT !.op = "validate", !.access = tok,
                                   !.at = now]
        IN
        IF tok = NoBearer
        THEN /\ loc' = [loc EXCEPT ![p] = start]
             /\ resp' = [resp EXCEPT ![p] =
                    Reply(401, "authentication required", NoBearer, 0)]
             /\ UNCHANGED faults
        ELSE \E ok \in Outcomes :
             LET err == ValidateAccessToken(tok, IsBlacklistedOrError(tok, ok))
             IN
             /\ Inject(ok)
             /\ loc' = [loc EXCEPT ![p] =
                    [start EXCEPT !.fault = ~ok, !.err = err,
                                  !.listed = IsBlacklisted(tok),
                                  !.uid = IF err = ""
                                         THEN ValidatedClaims(tok).user_id
                                         ELSE 0]]
             /\ resp' = [resp EXCEPT ![p] =
                    IF err # ""
                    THEN Reply(401, "invalid or expired token", NoBearer, 0)
                    ELSE NoResp]
    /\ UNCHANGED <<blacklisted_tokens, now, users, refresh_tokens,
                   password_reset_tokens, email_verification_tokens, limits,
                   seq, tx, rotations, codes>>

\* PostgresTokenBlacklistStore.BlacklistToken:
\*   INSERT INTO blacklisted_tokens ... ON CONFLICT (token) DO NOTHING
BlacklistToken(rows, tok, expiresAt) ==
    IF \E r \in rows : r.token = tok THEN rows
    ELSE rows \cup {[token |-> tok, expires_at |-> expiresAt]}

\* JWTService.BlacklistAccessToken, for any string presented: the expiry is
\* the token's own when it parses and is valid, otherwise (a string that is
\* no JWT included) the default counted from now.
BlacklistAccessToken(p) ==
    /\ Idle(p)
    /\ pc' = [pc EXCEPT ![p] = "done"]
    /\ \E tok \in PresentedTokens, ok \in Outcomes :
        LET expiresAt == IF ParseWithClaims(tok) = "" THEN tok.claims.exp
                         ELSE now + BlacklistDefaultExpiry
        IN
        /\ Inject(ok)
        /\ blacklisted_tokens' =
               IF ok THEN BlacklistToken(blacklisted_tokens, tok, expiresAt)
               ELSE blacklisted_tokens
        /\ loc' = [loc EXCEPT ![p] =
               [NoLoc EXCEPT !.op = "blacklist", !.fault = ~ok,
                             !.err = IF ok THEN ""
                                     ELSE "failed to blacklist token"]]
        /\ resp' = [resp EXCEPT ![p] = NoResp]
    /\ UNCHANGED <<now, users, refresh_tokens, password_reset_tokens,
                   email_verification_tokens, limits, seq, tx, rotations,
                   codes>>

\* ----------------------------------------------------------------- sweeps
\* PostgresRefreshTokenStore.DeleteExpiredRefreshTokens:
\*   DELETE FROM refresh_tokens WHERE expires_at < $1   ($1 = time.Now())
DeleteExpiredRefreshTokens(rows) == {r \in rows : ~(r.expires_at < now)}
\* PostgresPasswordResetStore.DeleteExpiredTokens:
\*   DELETE FROM password_reset_tokens WHERE expires_at < $1
DeleteExpiredTokensInclusive(rows) == {r \in rows : ~(r.expires_at <= now)}
DeleteExpiredTokens(rows) == {r \in rows : ~(r.expires_at < now)}
\* PostgresEmailVerificationStore.DeleteExpiredTokens:
\*   DELETE FROM email_verification_tokens WHERE expires_at < $1
DeleteExpiredVerificationTokens(rows) == {r \in rows : ~(r.expires_at < now)}
\* PostgresTokenBlacklistStore.CleanupExpiredTokens:
\*   DELETE FROM blacklisted_tokens WHERE expires_at < $1
CleanupExpiredTokens(rows) == {r \in rows : ~(r.expires_at < now)}

\* One tick of setupRefreshTokenCleanup's goroutine; a failed DELETE is
\* reported and the loop goes on.
RefreshTokenCleanup ==
    /\ \E ok \in Outcomes :
        /\ Inject(ok)
        /\ refresh_tokens' = IF ok THEN DeleteExpiredRefreshTokens(refresh_tokens)
                                   ELSE refresh_tokens
    /\ UNCHANGED <<blacklisted_tokens, now, users, password_reset_tokens,
                   email_verification_tokens, limits, seq, tx, pc, loc, resp,
                   rotations, codes>>

\* One tick of PasswordResetCleanupMiddleware's goroutine.
PasswordResetCleanup ==
    /\ \E ok \in Outcomes :
        /\ Inject(ok)
        /\ password_reset_tokens' =
               IF ok THEN DeleteExpiredTokens(password_reset_tokens)
                     ELSE password_reset_tokens
    /\ UNCHANGED <<blacklisted_tokens, now, users, refresh_tokens,
                   email_verification_tokens, limits, seq, tx, pc, loc, resp,
                   rotations, codes>>

\* A call of the verification store's DeleteExpiredTokens (the store offers
\* it; it runs when its owner calls it).
VerificationCleanup ==
    /\ \E ok \in Outcomes :
        /\ Inject(ok)
        /\ email_verification_tokens' =
               IF ok
               THEN DeleteExpiredVerificationTokens(email_verification_tokens)
               ELSE email_verification_tokens
    /\ UNCHANGED <<blacklisted_tokens, now, users, refresh_tokens,
                   password_reset_tokens, limits, seq, tx, pc, loc, resp,
                   rotations, codes>>

\* One tick of TokenBlacklistCleanupMiddleware's goroutine.
TokenBlacklistCleanup ==
    /\ \E ok \in Outcomes :
        /\ Inject(ok)
        /\ blacklisted_tokens' =
               IF ok THEN CleanupExpiredTokens(blacklisted_tokens)
                     ELSE blacklisted_tokens
    /\ UNCHANGED <<now, users, refresh_tokens, password_reset_tokens,
                   email_verification_tokens, limits, seq, tx, pc, loc, resp,
                   rotations, codes>>

\* --------------------------------------------------------- initial states
InitProcs ==
    /\ tx = [p \in Procs |-> NoTx]
    /\ pc = [p \in Procs |-> "idle"]
    /\ loc = [p \in Procs |-> NoLoc]
    /\ resp = [p \in Procs |-> NoResp]
    /\ rotations = [t \in 1..MaxSeq |-> 0]
NoCodes == [consumed |-> {}, superseded |-> {}, reset |-> {},
            verified |-> {}, admitted |-> <<>>, sweepers |-> 0]
InitWorkers ==
    /\ InitProcs
    /\ faults = 0
    /\ codes = NoCodes

\* The limiters after the client has sent n requests to the password-reset
\* routes at instant 0, which ipLimiter admitted and whose bodies no handler
\* could decode: n of its IPMaxRequests admissions are taken.
InitLimited(n) ==
    /\ limits = ("10.0.0.1" :> [i \in 1..n |-> 0])
    /\ InitProcs
    /\ faults = 0
    /\ codes = [NoCodes EXCEPT !.admitted = ("10.0.0.1" :> [i \in 1..n |-> 0])]

\* ------------------------------------------------- login and token rotation
\* One registered user: the refresh token her registration issued is the
\* only row of the ledger.
InitRefresh ==
    /\ now = 0
    /\ users = {Alice}
    /\ refresh_tokens =
           {[token |-> 2, user_id |-> 1, expires_at |-> RefreshTokenDuration,
             revoked |-> FALSE, ip_address |-> "10.0.0.1",
             user_agent |-> "curl"]}
    /\ password_reset_tokens = {}
    /\ email_verification_tokens = {}
    /\ blacklisted_tokens = {}
    /\ limits = <<>>
    /\ seq = 2
    /\ InitWorkers

NextRefresh ==
    \/ Tick
    \/ \E p \in Procs : LoginUser(p)
    \/ \E p \in Procs : LoginUpdateLastLogin(p)
    \/ \E p \in Procs : LoginGenerateTokenPair(p)
    \/ \E p \in Procs : RefreshLookup(p)
    \/ \E p \in Procs : RefreshGetUser(p)
    \/ \E p \in Procs : RefreshRevoke(p)
    \/ \E p \in Procs : RefreshCreate(p)
    \/ \E p \in Procs : RefreshCommit(p)

SpecRefresh == InitRefresh /\ [][NextRefresh]_vars

\* A finished refresh request of worker p for token t.
RefreshedBy(p, t) ==
    pc[p] = "done" /\ loc[p].op = "refresh" /\ loc[p].token = t

\* Workers p and q both presented t and both found its row: the two calls
\* overlapped on a live token.
RacedOn(p, q, t) ==
    /\ p # q
    /\ RefreshedBy(p, t) /\ RefreshedBy(q, t)
    /\ loc[p].found /\ loc[q].found

Won(p) == resp[p].status = 200 /\ resp[p].msg = "token refreshed"
                               /\ resp[p].refresh # 0
Lost(p) == resp[p].status = 401 /\ resp[p].msg = "invalid refresh token"
                                /\ resp[p].refresh = 0

\* C1: two concurrent RefreshAccessToken calls with the same live token T:
\* whatever the interleaving of their lookups, deletes and inserts, T is
\* rotated at most once, exactly one call returns a new pair and the other
\* is answered "invalid refresh token".
C1_SingleRotation ==
    /\ \A t \in 1..MaxSeq : rotations[t] <= 1
    /\ \A p, q \in Procs : \A t \in 1..MaxSeq :
           RacedOn(p, q, t) => (Won(p) /\ Lost(q)) \/ (Won(q) /\ Lost(p))

\* C2: once a refresh with T has succeeded, T is not in the ledger and every
\* later refresh with T is refused by the handler with 401.
C2_RotatedTokenDead ==
    /\ \A t \in 1..MaxSeq :
           rotations[t] > 0 => \A r \in refresh_tokens : r.token # t
    /\ \A p \in Procs :
           (loc[p].op = "refresh" /\ loc[p].replay)
               => pc[p] = "done" /\ Lost(p) /\ ~loc[p].found

\* A rotated token has been presented again and the call has finished.
C2_Witness ==
    \E p \in Procs :
        /\ pc[p] = "done" /\ loc[p].op = "refresh" /\ loc[p].replay
        /\ rotations[loc[p].token] = 1

\* C3: rotation is atomic: when a refresh with T fails after T was revoked
\* (signing, insert or commit failed), the revocation is undone and T is
\* still a row of the ledger.
C3_RevocationRolledBack ==
    \A p \in Procs :
        (pc[p] = "done" /\ loc[p].op = "refresh" /\ loc[p].revoked
             /\ resp[p].status # 200)
            => \E r \in refresh_tokens : r.token = loc[p].token

\* ------------------------------------------------------------ registration
\* One user is registered and her first session has ended.
InitRegister ==
    /\ now = 0
    /\ users = {Alice}
    /\ refresh_tokens = {}
    /\ password_reset_tokens = {}
    /\ email_verification_tokens = {}
    /\ blacklisted_tokens = {}
    /\ limits = <<>>
    /\ seq = 1
    /\ InitWorkers

NextRegister ==
    \/ Tick
    \/ \E p \in Procs : RegisterStart(p)
    \/ \E p \in Procs : RegisterCreateUser(p)
    \/ \E p \in Procs : RegisterTokens(p)
    \/ \E p \in Procs : RegisterCommit(p)
    \/ \E p \in Procs : VerificationDelete(p)
    \/ \E p \in Procs : VerificationInsert(p)

SpecRegister == InitRegister /\ [][NextRegister]_vars

\* A registration of worker p that passed validation (its user id is set).
Registering(p) == loc[p].op = "register" /\ loc[p].uid # 0
HasUserRow(uid) == \E u \in users : u.user_id = uid
HasTokenRow(uid) == \E r \in refresh_tokens : r.user_id = uid

\* C4: registration is all-or-nothing: the user row and the first refresh
\* token are committed together and answered 201, or neither exists; no
\* refresh token is ever without its user.
C4_RegisterAllOrNothing ==
    /\ \A r \in refresh_tokens : HasUserRow(r.user_id)
    /\ \A p \in Procs :
           Registering(p) =>
               /\ resp[p].status = 201 =>
                      /\ HasUserRow(loc[p].uid)
                      /\ \E r \in refresh_tokens :
                             r.user_id = loc[p].uid /\ r.token = resp[p].refresh
               /\ resp[p].status # 201 =>
                      ~HasUserRow(loc[p].uid) /\ ~HasTokenRow(loc[p].uid)

\* A registration failed after its user row had been inserted.
C4_Witness ==
    \E p \in Procs :
        /\ Registering(p) /\ pc[p] = "done" /\ resp[p].status = 500
        /\ loc[p].stage = "user" /\ loc[p].fault

\* C5: no two user rows share a username or an email, also when
\* registrations run concurrently; a registration whose insert meets a
\* duplicate is answered 409 and leaves no row.
C5_UniqueUsers ==
    /\ \A u1, u2 \in users :
           u1 # u2 => /\ u1.username # u2.username
                      /\ u1.email # u2.email
                      /\ u1.user_id # u2.user_id
    /\ \A p \in Procs :
           (Registering(p) /\ loc[p].dup) =>
               /\ pc[p] = "done" /\ resp[p].status = 409
               /\ ~HasUserRow(loc[p].uid) /\ ~HasTokenRow(loc[p].uid)
    /\ \A p, q \in Procs :
           (p # q /\ Registering(p) /\ Registering(q)
                  /\ resp[p].status = 201 /\ resp[q].status = 201)
               => /\ loc[p].username # loc[q].username
                  /\ loc[p].email # loc[q].email

\* Two overlapping registrations of one username: the one that started
\* later committed first, the other was answered 409.
C5_Witness ==
    \E p, q \in Procs :
        /\ p # q /\ Registering(p) /\ Registering(q)
        /\ loc[p].username = loc[q].username
        /\ loc[q].uid < loc[p].uid
        /\ resp[p].status = 201
        /\ pc[q] = "done" /\ resp[q].status = 409 /\ loc[q].dup

\* Another user's row holds p's username in a different letter case, under
\* a different email.
CaseVariantTaken(p) ==
    \E u \in users :
        /\ u.user_id # loc[p].uid
        /\ u.username # loc[p].username
        /\ ToLower(u.username) = ToLower(loc[p].username)
        /\ u.email # loc[p].email

\* C6: a registration whose username equals an existing username up to
\* letter case, with a different email, is answered Conflict and creates no
\* user row.
C6_UsernameCaseConflict ==
    \A p \in Procs :
        (Registering(p) /\ pc[p] = "done" /\ ~loc[p].fault
                        /\ CaseVariantTaken(p))
            => /\ resp[p].status = 409
               /\ resp[p].msg \in {"username already exists",
                                   "email already exists"}
               /\ ~HasUserRow(loc[p].uid)

\* ----------------------------------------------------------- password reset
NextReset ==
    \/ Tick
    \/ \E p \in Procs : PasswordResetRateLimitMiddleware(p)
    \/ \E p \in Procs : RequestPasswordReset(p)
    \/ \E p \in Procs : ResetCodeGetUser(p)
    \/ \E p \in Procs : ResendOTP(p)
    \/ \E p \in Procs : ResetCodeDelete(p)
    \/ \E p \in Procs : ResetCodeInsert(p)
    \/ \E p \in Procs : VerifyStart(p)
    \/ \E p \in Procs : VerifyGetUser(p)
    \/ \E p \in Procs : VerifyGetToken(p)
    \/ \E p \in Procs : VerifyResetPassword(p)
    \/ \E p \in Procs : VerifyResetMark(p)
    \/ \E p \in Procs : VerifyResetCommit(p)
    \/ \E p \in Procs : VerifyRevoke(p)

\* Starts like SpecRefresh, one user with one live session, the client
\* of the runs one request into its allowance.
InitReset ==
    /\ now = 0
    /\ users = {Alice}
    /\ refresh_tokens =
           {[token |-> 2, user_id |-> 1, expires_at |-> RefreshTokenDuration,
             revoked |-> FALSE, ip_address |-> "10.0.0.1",
             user_agent |-> "curl"]}
    /\ password_reset_tokens = {}
    /\ email_verification_tokens = {}
    /\ blacklisted_tokens = {}
    /\ seq = 2
    /\ InitLimited(1)

SpecReset == InitReset /\ [][NextReset]_vars

\* A confirmation by worker p that follows a finished successful
\* confirmation of the same (user, code).
Replaying(p) == loc[p].op = "verify_otp" /\ loc[p].replay
RejectedOTP(p) ==
    /\ pc[p] = "done" /\ resp[p].status = 400
    /\ resp[p].msg = "invalid or expired OTP"
    /\ loc[p].stage = ""

\* C7 as stated: after a confirmation with code C succeeded for u, every
\* later confirmation with the same (email, C) whose lookups returned is
\* answered "invalid or expired OTP" and leaves the password alone.
C7_ReplayAnsweredInvalidOTP ==
    \A p \in Procs :
        (Replaying(p) /\ pc[p] = "done" /\ ~loc[p].fault) => RejectedOTP(p)

\* C7 (amended): a consumed reset code is never accepted again.  A later
\* confirmation with the same (email, C) that finds the consumed row is
\* answered "invalid or expired OTP"; one the email rate limiter refuses is
\* answered 429; neither changes the password.  Only a different, unused
\* row of u with the same digits can be accepted.
C7_ConsumedCodeDead ==
    /\ \A h \in codes.consumed : \A r \in password_reset_tokens :
           r.id = h[3] => r.used
    /\ \A p \in Procs :
           Replaying(p) =>
               /\ loc[p].row \in loc[p].used => RejectedOTP(p)
               /\ loc[p].stage # "" =>
                      loc[p].row # 0 /\ loc[p].row \notin loc[p].used
               /\ (pc[p] = "done" /\ loc[p].stage = "") =>
                      \/ RejectedOTP(p)
                      \/ resp[p].status = 429 /\ loc[p].row = 0
                      \/ resp[p].status = 500 /\ loc[p].fault
                            /\ loc[p].row \notin loc[p].used

\* The consumed code was presented again before its expiry and refused.
C7_Witness ==
    \E p \in Procs :
        /\ Replaying(p) /\ RejectedOTP(p) /\ loc[p].row \in loc[p].used
        /\ \E r \in password_reset_tokens :
               r.id = loc[p].row /\ r.used /\ r.expires_at >= now

\* C8: after two code creations in sequence for one user, the first code
\* is gone and can no longer be accepted; a confirmation is accepted only
\* on a code that no later creation has replaced.
C8_ReplacedCodeRejected ==
    /\ \A r \in password_reset_tokens : r.id \notin codes.superseded
    /\ \A p \in Procs :
           (loc[p].op = "verify_otp" /\ loc[p].stage # "") =>
               loc[p].row # 0 /\ ~loc[p].stale

\* A second code replaced a first one and was then accepted.
C8_Witness ==
    \E p \in Procs :
        /\ loc[p].op = "verify_otp" /\ pc[p] = "done"
        /\ resp[p].status = 200
        /\ \E id \in codes.superseded : id < loc[p].row

\* C9: every user has at most one row in the reset-code ledger and at most
\* one in the verification-token ledger, in every reachable state.
C9_OneCodePerUser ==
    \A u \in users :
        /\ Cardinality({r \in password_reset_tokens :
                            r.user_id = u.user_id}) <= 1
        /\ Cardinality({r \in email_verification_tokens :
                            r.user_id = u.user_id}) <= 1

\* A confirmation of worker p that was answered "password reset successful".
ResetSucceeded(p) ==
    /\ loc[p].op = "verify_otp" /\ pc[p] = "done"
    /\ resp[p].status = 200 /\ resp[p].msg = "password reset successful"

\* C10: whenever a confirmation returns success for u, u has no live refresh
\* token at that point: a refresh with any token issued to u before the
\* reset finds no row.
C10_NoLiveTokenOnSuccess ==
    \A p \in Procs :
        ResetSucceeded(p) =>
            /\ loc[p].live = {}
            /\ \A r \in refresh_tokens :
                   r.user_id = loc[p].uid => GetRefreshToken(r.token) = {}

\* The password of user uid is no longer the one the run started with.
PasswordChanged(uid) ==
    \E u \in users : u.user_id = uid
                     /\ u.password_hash # SetPassword("Passw0rd!")

\* C11: a reset confirmation applies "password digest updated" and "code
\* marked used" together: a code is marked used only when its transaction
\* committed and the password changed with it; the password changes only
\* through a committed confirmation, whose code is marked used as long as
\* its row exists; a failed statement or commit leaves both untouched.
C11_ResetAtomic ==
    /\ \A r \in password_reset_tokens :
           r.used => r.id \in codes.reset /\ PasswordChanged(r.user_id)
    /\ \A u \in users : PasswordChanged(u.user_id) => codes.reset # {}
    /\ \A id \in codes.reset : \A r \in password_reset_tokens :
           r.id = id => r.used /\ PasswordChanged(r.user_id)
    /\ \A p \in Procs :
           (loc[p].op = "verify_otp" /\ pc[p] = "done"
                /\ resp[p].status = 500 /\ codes.reset = {})
               => /\ ~PasswordChanged(loc[p].uid)
                  /\ \A r \in password_reset_tokens : ~r.used

\* The commit of a confirmation failed after both statements had run: the
\* password is the old one and the code is still unused.
C11_Witness ==
    \E p \in Procs :
        /\ loc[p].op = "verify_otp" /\ pc[p] = "done"
        /\ resp[p].status = 500 /\ loc[p].stage = "mark"
        /\ ~PasswordChanged(loc[p].uid)
        /\ \E r \in password_reset_tokens : r.id = loc[p].row /\ ~r.used

\* ------------------------------------------------------- password change
NextAccount ==
    \/ Tick
    \/ \E p \in Procs : LoginUser(p)
    \/ \E p \in Procs : LoginUpdateLastLogin(p)
    \/ \E p \in Procs : LoginGenerateTokenPair(p)
    \/ \E p \in Procs : UpdatePasswordStart(p)
    \/ \E p \in Procs : UpdatePasswordUpdate(p)
    \/ \E p \in Procs : UpdatePasswordRevoke(p)
    \/ \E p \in Procs : UpdatePasswordCommit(p)

\* Starts like SpecRefresh: one user with one live session.
SpecAccount == InitRefresh /\ [][NextAccount]_vars

\* A password change of worker p that passed validation and has finished.
PasswordChangeFinished(p) ==
    loc[p].op = "update_password" /\ pc[p] = "done" /\ loc[p].uid # 0

\* C12: an authenticated password change is atomic over its two effects:
\* when the handler has finished, either the password digest is updated and
\* every refresh token of the user is deleted, or neither has been applied.
C12_PasswordChangeAtomic ==
    \A p \in Procs :
        PasswordChangeFinished(p) =>
            \/ loc[p].stage \in {"commit", "rollback"} /\ loc[p].live = {}
            \/ loc[p].stage = "" /\ loc[p].pre = {}

\* ------------------------------------------------------------------ logout
NextLogout ==
    \/ Tick
    \/ \E p \in Procs : LoginUser(p)
    \/ \E p \in Procs : LoginUpdateLastLogin(p)
    \/ \E p \in Procs : LoginGenerateTokenPair(p)
    \/ \E p \in Procs : LogoutUser(p)

\* Starts like SpecRefresh: one user with one live session.
SpecLogout == InitRefresh /\ [][NextLogout]_vars

\* A finished logout of worker p whose body carried a refresh_token field.
LoggedOut(p) == loc[p].op = "logout" /\ pc[p] = "done" /\ loc[p].token >= 0

\* C15: LogoutUser answers 200 for every well-formed request, also when the
\* store's delete fails, and whenever it answers success for a non-empty
\* token, that token is no longer accepted by a refresh.
C15_LogoutEndsSession ==
    \A p \in Procs :
        LoggedOut(p) =>
            /\ resp[p].status = 200
            /\ loc[p].token > 0 => GetRefreshToken(loc[p].token) = {}

\* ----------------------------------------------------------- access tokens
NextAccess ==
    \/ Tick
    \/ \E p \in Procs : JWTAuthMiddleware(p)
    \/ \E p \in Procs : BlacklistAccessToken(p)

\* Starts like SpecRefresh: one user, whose access tokens are presented.
SpecAccess == InitRefresh /\ [][NextAccess]_vars

\* A finished validation by worker p that carried a bearer token.
Validated(p) ==
    loc[p].op = "validate" /\ pc[p] = "done" /\ loc[p].access # NoBearer
Rejected(p) == Validated(p) /\ loc[p].err # ""

\* Why the token of p's validation had to be rejected, at the instant of
\* the validation.
WrongSecret(p) ==
    /\ loc[p].access # MalformedToken
    /\ loc[p].access.signature.key # AccessTokenSecret
Expired(p) ==
    loc[p].access # MalformedToken /\ ~(loc[p].at < loc[p].access.claims.exp)

\* C13 as stated: ValidateAccessToken rejects a token signed with another
\* secret, an expired token and a blacklisted token, and the error value
\* is the same in all three cases.
C13_SameErrorValue ==
    /\ \A p \in Procs :
           (Validated(p) /\ (WrongSecret(p) \/ Expired(p) \/ loc[p].listed))
               => Rejected(p)
    /\ \A p, q \in Procs :
           (Rejected(p) /\ Rejected(q)) => loc[p].err = loc[q].err

\* C13 (amended): ValidateAccessToken returns an error for a token signed
\* with another secret, for an expired token, and for a blacklisted token
\* whenever the blacklist lookup itself did not fail; the error values
\* differ ("token is revoked", "invalid token: ..."), and the caller,
\* JWTAuthMiddleware, answers every rejection with the same 401 "invalid or
\* expired token".
C13_RejectedAlike ==
    \A p \in Procs :
        Validated(p) =>
            /\ (WrongSecret(p) \/ Expired(p)) => Rejected(p)
            /\ (loc[p].listed /\ ~loc[p].fault) =>
                   loc[p].err = "token is revoked"
            /\ Rejected(p) =>
                   /\ resp[p] = Reply(401, "invalid or expired token", NoBearer, 0)
                   /\ loc[p].uid = 0
            /\ ~Rejected(p) => resp[p] = NoResp /\ loc[p].uid # 0

\* A blacklisted token that is otherwise valid and an expired one have both
\* been rejected, with different errors and the same answer.
C13_Witness ==
    \E p, q \in Procs :
        /\ Rejected(p) /\ Rejected(q)
        /\ loc[p].listed /\ ~WrongSecret(p) /\ ~Expired(p)
        /\ Expired(q) /\ ~loc[q].listed /\ ~WrongSecret(q)
        /\ loc[p].err # loc[q].err
        /\ resp[p] = resp[q]

\* C14: a blacklist entry never outlives the token it blacklists: the
\* row's expires_at is not later than the token's exp, also for a token that
\* is past its exp or otherwise fails validation when it is blacklisted.
C14_EntryNotAfterTokenExpiry ==
    \A r \in blacklisted_tokens : r.expires_at <= r.token.claims.exp

\* --------------------------------------------- code request and resend
\* The email of the requests is registered and unverified, registered and
\* verified, or belongs to nobody.
InitCodeRequest ==
    /\ now = 0
    /\ users \in {{}, {Alice}, {[Alice EXCEPT !.email_verified = TRUE]}}
    /\ refresh_tokens = {}
    /\ password_reset_tokens = {}
    /\ email_verification_tokens = {}
    /\ blacklisted_tokens = {}
    /\ seq = 1
    /\ InitLimited(3)

NextCodeRequest ==
    \/ Tick
    \/ \E p \in Procs : PasswordResetRateLimitMiddleware(p)
    \/ \E p \in Procs : RequestPasswordReset(p)
    \/ \E p \in Procs : ResetCodeGetUser(p)
    \/ \E p \in Procs : ResendOTP(p)
    \/ \E p \in Procs : ResetCodeDelete(p)
    \/ \E p \in Procs : ResetCodeInsert(p)
    \/ \E p \in Procs : ResendVerificationEmail(p)
    \/ \E p \in Procs : ResendVerificationGetUser(p)
    \/ \E p \in Procs : RequestVerificationEmail(p)
    \/ \E p \in Procs : RequestVerificationAllow(p)
    \/ \E p \in Procs : VerificationDelete(p)
    \/ \E p \in Procs : VerificationInsert(p)

SpecCodeRequest == InitCodeRequest /\ [][NextCodeRequest]_vars

\* A finished request of worker p to one of the endpoints that must not
\* reveal whether an email is registered, with a well-formed email.
CodeRequested(p, ops) ==
    /\ pc[p] = "done" /\ loc[p].op \in ops
    /\ IsValidEmail(loc[p].email)

\* C16: RequestPasswordReset for a well-formed email that belongs to no
\* user is answered, its lookup having returned, with the status and body
\* a registered email gets, creates no reset-code row and dispatches no
\* email.
C16_UnknownEmailSameAnswer ==
    /\ \A p \in Procs :
           (CodeRequested(p, {"request_reset"}) /\ ~loc[p].fault
                /\ GetUserByEmail(loc[p].email) = {})
               => /\ resp[p] = Reply(200, ResetCodeMessage("request_reset"), NoBearer, 0)
                  /\ loc[p].row = 0 /\ loc[p].mail = ""
                  /\ password_reset_tokens = {}
    /\ \A p \in Procs :
           (CodeRequested(p, {"request_reset"}) /\ loc[p].mail # "")
               => /\ resp[p] = Reply(200, ResetCodeMessage("request_reset"), NoBearer, 0)
                  /\ GetUserByEmail(loc[p].email) # {}

\* An email that belongs to nobody, admitted by the rate limiter and
\* answered.
C16_Witness ==
    \E p \in Procs :
        /\ CodeRequested(p, {"request_reset"}) /\ ~loc[p].denied
        /\ users = {} /\ resp[p].status = 200 /\ loc[p].mail = ""

\* C17: RequestPasswordReset, ResendOTP and ResendVerificationEmail answer
\* 200 for every well-formed email, whether or not it is registered and
\* whether or not the email rate limiter admits the request (requests whose
\* store statements failed are left aside).
C17_AlwaysSuccessShaped ==
    \A p \in Procs :
        (CodeRequested(p, {"request_reset", "resend_otp",
                           "resend_verification"}) /\ ~loc[p].fault)
            => resp[p].status = 200

\* ------------------------------------------------- reset confirmation
\* Two registered users and the reset codes left by earlier requests: Alice
\* has no code, a code about to expire, a fresh code, or a code she has
\* already spent (her password is then the one that reset chose); Bob has
\* a fresh code or none.
Bob == [user_id |-> 2, username |-> "bob", email |-> "b@x.io",
        password_hash |-> SetPassword("Passw0rd!"), email_verified |-> FALSE,
        last_login |-> -1]
AliceCodes ==
    {[id |-> 3, user_id |-> 1, token |-> 111111, expires_at |-> e,
      used |-> u] : e \in {0, OTPExpiry}, u \in BOOLEAN}
BobCode == [id |-> 4, user_id |-> 2, token |-> 222222,
            expires_at |-> OTPExpiry, used |-> FALSE]
\* generateOTP drew for Bob the digits it drew for Alice.
BobSameCode == [BobCode EXCEPT !.token = 111111]
InitConfirm ==
    /\ now = 0
    /\ \E own \in {{}} \cup {{r} : r \in AliceCodes},
          other \in {{}, {BobCode}, {BobSameCode}} :
        /\ password_reset_tokens = own \cup other
        /\ users = {IF \E r \in own : r.used
                    THEN [Alice EXCEPT
                              !.password_hash = SetPassword("N3wpass!x")]
                    ELSE Alice,
                    Bob}
    /\ refresh_tokens = {}
    /\ email_verification_tokens = {}
    /\ blacklisted_tokens = {}
    /\ seq = 4
    /\ InitLimited(3)

NextConfirm ==
    \/ Tick
    \/ \E p \in Procs : PasswordResetRateLimitMiddleware(p)
    \/ \E p \in Procs : VerifyStart(p)
    \/ \E p \in Procs : VerifyGetUser(p)
    \/ \E p \in Procs : VerifyGetToken(p)
    \/ \E p \in Procs : VerifyResetPassword(p)
    \/ \E p \in Procs : VerifyResetMark(p)
    \/ \E p \in Procs : VerifyResetCommit(p)
    \/ \E p \in Procs : VerifyRevoke(p)

SpecConfirm == InitConfirm /\ [][NextConfirm]_vars

\* Worker p's confirmation, admitted by the email rate limiter and with
\* the user of its email found, looks the code up and checks the row.
ConfirmationLooksUp(p) ==
    /\ pc[p] = "vo_token" /\ pc'[p] # "vo_token" /\ ~loc'[p].fault
\* The row the confirmation looked up, as the table holds it.
CodeRowOf(id) == {r \in password_reset_tokens : r.id = id}
CodeNotFound(id) == CodeRowOf(id) = {}
CodeOfAnotherUser(id, uid) == \E r \in CodeRowOf(id) : r.user_id # uid
CodeUsed(id) == \E r \in CodeRowOf(id) : r.used
CodeExpired(id) == \E r \in CodeRowOf(id) : r.expires_at < now

\* The tables of the database.
Tables == <<users, password_reset_tokens, refresh_tokens,
            email_verification_tokens, blacklisted_tokens>>

\* Worker p takes a step of a confirmation before ResetPasswordTransaction:
\* the middleware of the group, the handler up to the email limiter, the
\* user lookup, the code lookup.
ConfirmationStep(p) ==
    /\ <<pc[p], loc[p], resp[p]>> # <<pc'[p], loc'[p], resp'[p]>>
    /\ \/ Idle(p) /\ loc'[p].op = "password_reset"
       \/ pc[p] = "pr_next" /\ loc'[p].op = "verify_otp"
       \/ pc[p] \in {"vo_user", "vo_token"}

\* The code p's confirmation looked up is rejected for one of the four
\* reasons.
RejectionReason(id, uid) ==
    \/ CodeNotFound(id)
    \/ CodeOfAnotherUser(id, uid)
    \/ CodeUsed(id)
    \/ CodeExpired(id)

\* after is before with one admission recorded under key k now, the
\* timestamps of k that had left the window dropped.
AdmissionRecorded(before, after, k) ==
    /\ DOMAIN after = DOMAIN before \cup {k}
    /\ \A j \in DOMAIN after :
           LET old == IF j \in DOMAIN before THEN before[j] ELSE <<>> IN
           IF j = k
           THEN \E n \in 0..Len(old) :
                    after[j] = Append(SubSeq(old, n + 1, Len(old)), now)
           ELSE after[j] = old

\* C18 as stated: a confirmation whose code is not found, belongs to another
\* user, is already used or is expired is answered 400 "invalid or expired
\* OTP", the same response for each reason, and has changed no state: no
\* step of it changed a table, and no call of it changed what a rate
\* limiter holds.
C18_RejectionChangesNothing ==
    [][\A p \in Procs :
          /\ ConfirmationStep(p) => UNCHANGED Tables
          /\ (ConfirmationLooksUp(p)
                 /\ RejectionReason(loc'[p].row, loc'[p].uid))
              => /\ pc'[p] = "done"
                 /\ resp'[p] = Reply(400, "invalid or expired OTP", NoBearer, 0)
                 /\ UNCHANGED limits
                 /\ ~loc'[p].recorded]_vars

\* C18 (amended): a confirmation whose code is not found, belongs to another
\* user, is already used or is expired is answered 400 "invalid or expired
\* OTP", the same response for each reason.  No step of a confirmation up
\* to the lookup changes a row of any table.  The rate limiters are changed
\* by it: the middleware records an admission under the client address, the
\* handler one under the email, and the two lookups leave the limiters as
\* they are, so the rejected request leaves its two admissions behind.
C18_UniformRejection ==
    [][\A p \in Procs :
          /\ ConfirmationStep(p) => UNCHANGED Tables
          /\ (ConfirmationLooksUp(p)
                 /\ RejectionReason(loc'[p].row, loc'[p].uid))
              => /\ pc'[p] = "done"
                 /\ resp'[p] = Reply(400, "invalid or expired OTP", NoBearer, 0)
                 /\ loc'[p].recorded
          /\ (ConfirmationStep(p) /\ pc'[p] = "pr_next")
              => AdmissionRecorded(limits, limits', loc'[p].client[1])
          /\ (ConfirmationStep(p) /\ pc'[p] = "vo_user")
              => AdmissionRecorded(limits, limits', loc'[p].email)
          /\ (ConfirmationStep(p) /\ pc[p] \in {"vo_user", "vo_token"})
              => UNCHANGED limits]_vars

\* One worker was turned away with her own expired code, the other with a
\* code that belongs to another user; the email limiter holds the admission
\* of each.
C18_Witness ==
    \E p, q \in Procs :
        /\ RejectedOTP(p) /\ loc[p].op = "verify_otp"
        /\ CodeExpired(loc[p].row) /\ ~CodeUsed(loc[p].row)
        /\ ~CodeOfAnotherUser(loc[p].row, loc[p].uid)
        /\ RejectedOTP(q) /\ loc[q].op = "verify_otp"
        /\ CodeOfAnotherUser(loc[q].row, loc[q].uid)
        /\ ~CodeExpired(loc[q].row)
        /\ loc[p].email \in DOMAIN limits /\ loc[q].email \in DOMAIN limits
        /\ loc[p].recorded /\ loc[q].recorded

\* ---------------------------------------------------- email confirmation
\* Alice registered and has not confirmed her email; the verification token
\* of her registration is about to expire or fresh.
InitVerify ==
    /\ now = 0
    /\ users = {Alice}
    /\ refresh_tokens = {}
    /\ password_reset_tokens = {}
    /\ \E e \in {0, EmailVerificationTokenExpiry} :
           email_verification_tokens =
               {[id |-> 2, user_id |-> 1, token |-> 2, expires_at |-> e]}
    /\ blacklisted_tokens = {}
    /\ limits = <<>>
    /\ seq = 2
    /\ InitWorkers

NextVerify ==
    \/ Tick
    \/ \E p \in Procs : VerifyEmailStart(p)
    \/ \E p \in Procs : VerifyEmailExpired(p)
    \/ \E p \in Procs : VerifyEmailUser(p)
    \/ \E p \in Procs : VerifyEmailSet(p)
    \/ \E p \in Procs : VerifyEmailDelete(p)
    \/ \E p \in Procs : ResendVerificationEmail(p)
    \/ \E p \in Procs : ResendVerificationGetUser(p)
    \/ \E p \in Procs : RequestVerificationEmail(p)
    \/ \E p \in Procs : RequestVerificationAllow(p)
    \/ \E p \in Procs : VerificationDelete(p)
    \/ \E p \in Procs : VerificationInsert(p)

SpecVerify == InitVerify /\ [][NextVerify]_vars

HasVerificationRow(id) == \E r \in email_verification_tokens : r.id = id
EmailVerifiedOf(uid) == \E u \in users : u.user_id = uid /\ u.email_verified

\* The step on which worker p answers NotFound to a token without a row.
AnswersNotFound(p) ==
    /\ Idle(p) /\ <<pc[p], loc[p], resp[p]>> # <<pc'[p], loc'[p], resp'[p]>>
    /\ pc'[p] = "done" /\ loc'[p].op = "verify_email"
    /\ loc'[p].token # 0 /\ ~loc'[p].fault
    /\ GetVerificationTokenByToken(loc'[p].token) = {}
\* The step on which worker p answers for a row it found past expiry.
AnswersExpired(p) == pc[p] = "ve_expired" /\ pc'[p] = "done"

\* C19: VerifyEmail with a token whose row is past expiry deletes that row
\* and answers 410; a token without a row gets 404; email_verified is the
\* same before and after.
C19_ExpiredDeletedAndGone ==
    [][\A p \in Procs :
          /\ AnswersExpired(p)
                 => /\ resp'[p].status = 410
                    /\ ~HasVerificationRow(loc[p].row)'
                    /\ UNCHANGED users
          /\ AnswersNotFound(p)
                 => /\ resp'[p].status = 404
                    /\ UNCHANGED <<users, email_verification_tokens>>]_vars

\* A confirmation of worker p answered "email verified successfully".
VerifiedBy(p) ==
    /\ pc[p] = "done" /\ loc[p].op = "verify_email"
    /\ resp[p] = Reply(200, "email verified successfully", NoBearer, 0)

\* C20: a verification token is consumed exactly once: after the success
\* answer for t, email_verified is true, the row of t is gone, no
\* VerifyEmail(t) that started afterwards is answered success again, and no
\* two confirmations of t are both answered success.
C20_ConsumedOnce ==
    /\ \A p \in Procs :
           VerifiedBy(p)
               => /\ EmailVerifiedOf(loc[p].uid)
                  /\ ~HasVerificationRow(loc[p].row)
                  /\ ~loc[p].replay
    /\ \A p, q \in Procs :
           (p # q /\ VerifiedBy(p) /\ VerifiedBy(q))
               => loc[p].token # loc[q].token

\* --------------------------------------------------- resend when verified
\* A finished verification request, of either variant, for a user whose
\* email is verified.
VerifiedUserRequested(p) ==
    /\ pc[p] = "done"
    /\ loc[p].op \in {"resend_verification", "request_verification"}
    /\ \E u \in users : u.email = loc[p].email /\ u.email_verified

\* C21: for a user whose email is already verified, ResendVerificationEmail
\* and RequestVerificationEmail answer with a success status, create no
\* verification token and dispatch no email, however often they are
\* repeated.
C21_VerifiedNoOpSuccess ==
    \A p \in Procs :
        VerifiedUserRequested(p)
            => /\ resp[p].status = 200
               /\ loc[p].row = 0 /\ loc[p].mail = ""
               /\ email_verification_tokens = {}

\* ------------------------------------------------------- periodic sweeps
\* Alice has, in every table, a row that expires at 0 and a row created at
\* 0: two sessions, two reset codes, two verification tokens, and two of
\* her access tokens on the blacklist.
InitSweep ==
    /\ now = 0
    /\ users = {Alice}
    /\ refresh_tokens =
           {[token |-> t, user_id |-> 1,
             expires_at |-> IF t = 2 THEN 0 ELSE RefreshTokenDuration,
             revoked |-> FALSE, ip_address |-> "10.0.0.1",
             user_agent |-> "curl"] : t \in {2, 3}}
    /\ password_reset_tokens =
           {[id |-> 2, user_id |-> 1, token |-> 111111, expires_at |-> 0,
             used |-> FALSE],
            [id |-> 3, user_id |-> 1, token |-> 222222,
             expires_at |-> OTPExpiry, used |-> FALSE]}
    /\ email_verification_tokens =
           {[id |-> t, user_id |-> 1, token |-> t,
             expires_at |-> IF t = 2 THEN 0
                            ELSE EmailVerificationTokenExpiry] : t \in {2, 3}}
    /\ blacklisted_tokens =
           {[token |-> SignedAccessToken(Alice, iat, AccessTokenSecret),
             expires_at |-> iat + AccessTokenDuration] :
                iat \in {0 - AccessTokenDuration, 0}}
    /\ limits = <<>>
    /\ seq = 3
    /\ InitWorkers

NextSweep ==
    \/ Tick
    \/ RefreshTokenCleanup
    \/ PasswordResetCleanup
    \/ VerificationCleanup
    \/ TokenBlacklistCleanup
    \/ \E p \in Procs : LogoutUser(p)
    \/ \E p \in Procs : VerifyEmailStart(p)
    \/ \E p \in Procs : VerifyEmailExpired(p)
    \/ \E p \in Procs : VerifyEmailUser(p)
    \/ \E p \in Procs : VerifyEmailSet(p)
    \/ \E p \in Procs : VerifyEmailDelete(p)

SpecSweep == InitSweep /\ [][NextSweep]_vars

\* What a foreground request would still accept: RefreshAccessToken's
\* lookup, VerifyOTPAndResetPassword's check, VerifyEmail's expiry check,
\* ValidateAccessToken's blacklist lookup.
RefreshTokenAccepted(r) == r \in GetRefreshToken(r.token)
ResetCodeAccepted(r) == ~(r.used \/ r.expires_at < now)
VerificationTokenAccepted(r) == ~(r.expires_at < now)
BlacklistEntryReported(r) == r.expires_at > now

\* C22: a sweep removes only rows whose expires_at is in the past: never a
\* refresh token, reset code or verification token a foreground request
\* would still accept, never a blacklist entry IsBlacklisted still reports.
C22_SweepsRemoveOnlyExpired ==
    [][/\ RefreshTokenCleanup =>
              \A r \in refresh_tokens \ refresh_tokens' :
                  r.expires_at < now /\ ~RefreshTokenAccepted(r)
       /\ PasswordResetCleanup =>
              \A r \in password_reset_tokens \ password_reset_tokens' :
                  r.expires_at < now /\ ~ResetCodeAccepted(r)
       /\ VerificationCleanup =>
              \A r \in email_verification_tokens \ email_verification_tokens' :
                  r.expires_at < now /\ ~VerificationTokenAccepted(r)
       /\ TokenBlacklistCleanup =>
              \A r \in blacklisted_tokens \ blacklisted_tokens' :
                  r.expires_at < now /\ ~BlacklistEntryReported(r)]_vars

\* With no foreground request made, the four sweeps have removed the rows
\* that expired at 0 and left the rows created at 0.
C22_Witness ==
    /\ \A p \in Procs : pc[p] = "idle"
    /\ now = 1
    /\ {r.token : r \in refresh_tokens} = {3}
    /\ {r.id : r \in password_reset_tokens} = {3}
    /\ {r.id : r \in email_verification_tokens} = {3}
    /\ {r.expires_at : r \in blacklisted_tokens} = {AccessTokenDuration}

\* ------------------------------------------------------- rejected logins
\* The step on which worker p's login is answered.
LoginAnswered(p) ==
    /\ Idle(p) /\ <<pc[p], loc[p], resp[p]>> # <<pc'[p], loc'[p], resp'[p]>>
    /\ pc'[p] = "done" /\ loc'[p].op = "login"
UnknownEmail(email) == GetUserByEmail(email) = {}
WrongPassword(email, password) ==
    \E u \in GetUserByEmail(email) : ~CheckPassword(u.password_hash, password)

\* C23: a login whose email belongs to no user and a login whose password
\* does not verify get the same answer, 401 "invalid email or password"
\* (the lookup itself having returned), and neither creates a refresh token
\* nor touches last_login.
C23_LoginRejectedAlike ==
    [][\A p \in Procs :
          (/\ LoginAnswered(p) /\ ~loc'[p].fault
           /\ \/ UnknownEmail(loc'[p].email)
              \/ WrongPassword(loc'[p].email, loc'[p].password))
              => /\ resp'[p] = Reply(401, "invalid email or password", NoBearer, 0)
                 /\ UNCHANGED <<users, refresh_tokens>>]_vars

\* One worker was turned away for an unknown email and the other for a
\* wrong password, with the same response; Alice's row and her session are
\* as they were.
C23_Witness ==
    \E p, q \in Procs :
        /\ pc[p] = "done" /\ loc[p].op = "login"
        /\ UnknownEmail(loc[p].email)
        /\ pc[q] = "done" /\ loc[q].op = "login"
        /\ WrongPassword(loc[q].email, loc[q].password)
        /\ resp[p] = resp[q] /\ resp[p].status = 401
        /\ users = {Alice} /\ {r.token : r \in refresh_tokens} = {2}

\* ------------------------------------------- revocation after a reset
\* The step on which worker p's confirmation, its transaction committed,
\* runs the revoke-all and answers.
RevokesAfterReset(p) == pc[p] = "vo_revoke" /\ pc'[p] = "done"

\* C24: when RevokeAllUserRefreshTokens fails in VerifyOTPAndResetPassword
\* the handler still answers success, and the password change and the
\* consumption of the code stay committed.
C24_RevokeFailureSwallowed ==
    [][\A p \in Procs :
          (RevokesAfterReset(p) /\ loc'[p].fault)
              => /\ resp'[p] = Reply(200, "password reset successful", NoBearer, 0)
                 /\ loc[p].row \in codes.reset
                 /\ UNCHANGED <<users, password_reset_tokens,
                                refresh_tokens>>]_vars

\* A confirmation answered success although its revoke-all failed: the new
\* password is in place, the code is used, the session is still there.
C24_Witness ==
    \E p \in Procs :
        /\ ResetSucceeded(p) /\ loc[p].fault /\ loc[p].stage = "revoke"
        /\ \E u \in users : u.user_id = loc[p].uid
                            /\ u.password_hash = SetPassword("N3wpass!x")
        /\ \E r \in password_reset_tokens : r.id = loc[p].row /\ r.used
        /\ loc[p].pre # {} /\ loc[p].pre \subseteq {r.token : r \in refresh_tokens}

\* ------------------------------------------------- access token round trip
\* The claims a token of user u has to carry.
ClaimsFor(u) ==
    [user_id |-> u.user_id, username |-> u.username, email |-> u.email,
     subject |-> u.user_id]
\* Worker p's registration was answered 201 with a token pair.
Registered(p) == loc[p].op = "register" /\ resp[p].status = 201

ParsesAt(p) ==
    /\ loc[p].access # MalformedToken
    /\ loc[p].access.signature.key = AccessTokenSecret
    /\ loc[p].at < loc[p].access.claims.exp

\* C26: when the blacklist lookup fails, ValidateAccessToken does not
\* reject for that reason: it accepts the token exactly when its signature,
\* algorithm and exp checks pass.
C26_LookupFailureIgnored ==
    \A p \in Procs :
        (Validated(p) /\ loc[p].fault)
            => /\ loc[p].err # "token is revoked"
               /\ (loc[p].err = "") <=> ParsesAt(p)
               /\ ~ParsesAt(p) => resp[p].status = 401
               /\ ParsesAt(p) => resp[p] = NoResp

\* A token that is on the blacklist was accepted because the lookup failed.
C26_Witness ==
    \E p \in Procs :
        /\ Validated(p) /\ loc[p].fault /\ loc[p].listed
        /\ ParsesAt(p) /\ loc[p].err = "" /\ loc[p].uid = Alice.user_id

\* ------------------------------------------------ the rotated-in token
RotationSteps == {"rf_user", "rf_revoke", "rf_create", "rf_commit"}

\* C27: a successful RefreshAccessToken(T) issues a refresh token with a
\* string different from T, for the user of T's row, with the ip address
\* and user agent of T's row: the rotation reads them from the row it
\* found, keeps them until the INSERT, and answers with the inserted token.
C27_RotationKeepsOwnerAndClient ==
    [][\A p \in Procs :
          /\ (Idle(p) /\ pc'[p] = "rf_user")
                 => \E r \in refresh_tokens :
                        /\ r.token = loc'[p].token
                        /\ r.user_id = loc'[p].uid
                        /\ <<r.ip_address, r.user_agent>> = loc'[p].client
          /\ (pc[p] \in RotationSteps /\ pc'[p] \in RotationSteps)
                 => /\ loc'[p].token = loc[p].token
                    /\ loc'[p].uid = loc[p].uid
                    /\ loc'[p].client = loc[p].client
          /\ (pc[p] = "rf_create" /\ pc'[p] = "rf_commit")
                 => \E r \in refresh_tokens' \ refresh_tokens :
                        /\ r.token = loc'[p].issued
                        /\ r.token # loc[p].token
                        /\ r.user_id = loc[p].uid
                        /\ <<r.ip_address, r.user_agent>> = loc[p].client
          /\ (pc[p] = "rf_commit" /\ resp'[p].status = 200)
                 => /\ resp'[p].refresh = loc[p].issued
                    /\ resp'[p].refresh # loc[p].token]_vars

\* A session opened from the second client was rotated: the token of the
\* answer is in the ledger with that client's ip address and user agent.
C27_Witness ==
    \E p \in Procs :
        /\ pc[p] = "done" /\ loc[p].op = "refresh" /\ resp[p].status = 200
        /\ loc[p].token # 2 /\ resp[p].refresh # loc[p].token
        /\ \E r \in refresh_tokens :
               /\ r.token = resp[p].refresh /\ r.user_id = Alice.user_id
               /\ r.ip_address = "10.0.0.2" /\ r.user_agent = "firefox"
        /\ \A r \in refresh_tokens : r.ip_address = "10.0.0.2"

\* --------------------------------------- registration and the notifier
\* Registration of worker p has been answered and its notifier is running.
Notifying(p) == Registering(p) /\ pc[p] \in {"vt_delete", "vt_insert"}
HasVerificationTokenOf(uid) ==
    \E r \in email_verification_tokens : r.user_id = uid

\* C28: registration answers independently of the notifier: a verification
\* code is created and the email handed over only after the user row and
\* the refresh token are committed and the 201 is fixed, and no step of the
\* notifier, failed or not, changes the answer, the user rows or the
\* refresh tokens.
C28_NotifierAfterCommit ==
    [][\A p \in Procs :
          /\ (Registering(p) /\ (HasVerificationTokenOf(loc[p].uid)
                                     \/ loc[p].mail # ""))'
                 => /\ resp[p].status = 201
                    /\ HasUserRow(loc[p].uid) /\ HasTokenRow(loc[p].uid)
          /\ (Notifying(p) /\ pc'[p] # pc[p])
                 => /\ resp'[p] = resp[p] /\ resp[p].status = 201
                    /\ users' = users /\ refresh_tokens' = refresh_tokens
                    /\ HasUserRow(loc[p].uid) /\ HasTokenRow(loc[p].uid)]_vars

\* A registration answered 201 whose notifier failed: the answer, the user
\* row and the refresh token are still there, and no email went out.
C28_Witness ==
    \E p \in Procs :
        /\ Registering(p) /\ pc[p] = "done" /\ loc[p].stage = "commit"
        /\ loc[p].fault /\ loc[p].mail = ""
        /\ resp[p].status = 201
        /\ HasUserRow(loc[p].uid) /\ HasTokenRow(loc[p].uid)

\* ------------------------------------------------- rate limiter instances
\* The goroutine NewRateLimiter starts: rl.cleanup() under rl.mu.
LimiterCleanup ==
    /\ \E rl \in RateLimiters : limits' = LimiterCleanupRecord(rl)
    /\ UNCHANGED <<now, users, refresh_tokens, password_reset_tokens,
                   email_verification_tokens, blacklisted_tokens, seq, tx, pc,
                   loc, resp, faults, rotations, codes>>

LimiterTick ==
    /\ now < LimiterHorizon
    /\ now' = now + 1
    /\ UNCHANGED <<users, refresh_tokens, password_reset_tokens,
                   email_verification_tokens, blacklisted_tokens, limits, seq,
                   tx, pc, loc, resp, faults, rotations, codes>>

\* Both limiters as the process starts them, empty maps, before anyone
\* has registered; the store answers every statement of these runs.
InitLimiter ==
    /\ now = 0
    /\ users = {}
    /\ refresh_tokens = {}
    /\ password_reset_tokens = {}
    /\ email_verification_tokens = {}
    /\ blacklisted_tokens = {}
    /\ limits = <<>>
    /\ seq = 1
    /\ InitProcs
    /\ faults = MaxFaults
    /\ codes = NoCodes

\* The callers of the limiters: the middleware of the password-reset
\* routes (ipLimiter), then the request handler behind it (emailLimiter).
NextLimiter ==
    \/ LimiterTick
    \/ LimiterCleanup
    \/ \E p \in Procs : PasswordResetRateLimitMiddleware(p)
    \/ \E p \in Procs : RequestPasswordReset(p)
    \/ \E p \in Procs : ResetCodeGetUser(p)

SpecLimiter == InitLimiter /\ [][NextLimiter]_vars

\* Admissions of key k at instants s .. s + w.
AdmittedWithin(k, s, w) ==
    {i \in 1..Len(codes.admitted[k]) :
        s <= codes.admitted[k][i] /\ codes.admitted[k][i] <= s + w}

\* C29: for every interleaving of Allow calls and cleanup runs, the calls
\* of Allow(k) that returned true within any one window of the limiter
\* number at most maxRequests (3 per window for an email, 5 for a client
\* address).
C29_AdmissionsBounded ==
    \A rl \in RateLimiters : \A k \in LimiterKeys(rl) \cap DOMAIN codes.admitted :
        \A s \in 0..LimiterHorizon :
            Cardinality(AdmittedWithin(k, s, NewRateLimiter(rl).windowLength))
                <= NewRateLimiter(rl).maxRequests

\* An email was admitted more often than maxRequests over the run (its
\* window has moved on), cleanup has dropped old timestamps, and the latest
\* call for it was refused.
C29_Witness ==
    \E p \in Procs : \E k \in LimiterKeys("email") \cap DOMAIN codes.admitted :
        /\ Len(codes.admitted[k]) > EmailMaxRequests
        /\ k \in DOMAIN limits /\ Len(limits[k]) < Len(codes.admitted[k])
        /\ Len(limits[k]) = EmailMaxRequests
        /\ pc[p] = "done" /\ loc[p].email = k /\ loc[p].denied

\* ------------------------------------------ concurrent confirmations
\* C30: of two confirmations that present the same valid code of a user
\* with different new passwords at the same time, at most one succeeds
\* (the other is answered "invalid or expired OTP").
C30_OneConfirmationPerCode ==
    \A p, q \in Procs :
        (p # q /\ ResetSucceeded(p) /\ ResetSucceeded(q)
               /\ loc[p].row = loc[q].row)
            => loc[p].password = loc[q].password

\* ------------------------------------- rotation against a revoke-all
\* Alice has one live session, which can be rotated while she changes her
\* password.  (A reset confirmation calls the same RevokeAllUserRefreshTokens
\* after its transaction has committed.)
InitOverlap ==
    /\ now = 0
    /\ users = {Alice}
    /\ refresh_tokens =
           {[token |-> 2, user_id |-> 1, expires_at |-> RefreshTokenDuration,
             revoked |-> FALSE, ip_address |-> "10.0.0.1",
             user_agent |-> "curl"]}
    /\ password_reset_tokens = {}
    /\ email_verification_tokens = {}
    /\ blacklisted_tokens = {}
    /\ limits = <<>>
    /\ seq = 2
    /\ InitWorkers

NextOverlap ==
    \/ Tick
    \/ \E p \in Procs : RefreshLookup(p)
    \/ \E p \in Procs : RefreshGetUser(p)
    \/ \E p \in Procs : RefreshRevoke(p)
    \/ \E p \in Procs : RefreshCreate(p)
    \/ \E p \in Procs : RefreshCommit(p)
    \/ \E p \in Procs : UpdatePasswordStart(p)
    \/ \E p \in Procs : UpdatePasswordUpdate(p)
    \/ \E p \in Procs : UpdatePasswordRevoke(p)
    \/ \E p \in Procs : UpdatePasswordCommit(p)

SpecOverlap == InitOverlap /\ [][NextOverlap]_vars

\* The revoke-all of worker q's password change or reset has completed.
RevokedAll(q) ==
    /\ ~loc[q].fault
    /\ loc[q].op = "update_password"
    /\ loc[q].stage \in {"revoke", "commit", "rollback"}
\* No rotation is in flight.
RefreshesReturned ==
    \A p \in Procs :
        pc[p] \notin {"rf_user", "rf_revoke", "rf_create", "rf_commit"}

\* C31: a refresh that overlaps a revoke-all for the same user leaves no
\* session alive: once the revoke-all has completed and the refresh has
\* returned, the user has no refresh token (every token of these runs
\* descends from the one issued before the revoke-all).
C31_NoSessionSurvivesRevokeAll ==
    \A q \in Procs :
        (RevokedAll(q) /\ RefreshesReturned)
            => ~HasTokenRow(loc[q].uid)

\* ------------------------------------------- codes with equal digits
\* The user of p's confirmation holds an unused, unexpired code with the
\* digits p presents.
HoldsValidCode(uid, otp) ==
    \E r \in password_reset_tokens :
        /\ r.user_id = uid /\ r.token = otp
        /\ ~r.used /\ r.expires_at >= now

\* C32: a confirmation for (email of u, code c) that the rate limiter
\* admits is accepted whenever u holds an unused, unexpired code with value
\* c, whatever codes other users hold, a code with the same digits
\* included.
C32_OwnCodeAccepted ==
    [][\A p \in Procs :
          (ConfirmationLooksUp(p) /\ HoldsValidCode(loc'[p].uid, loc'[p].otp))
              => pc'[p] = "vo_reset"]_vars

\* ------------------------------------- confirmation and the limiter
\* One registered user without a session; requests, resends and
\* confirmations of reset codes.
InitIssue ==
    /\ now = 0
    /\ users = {Alice}
    /\ refresh_tokens = {}
    /\ password_reset_tokens = {}
    /\ email_verification_tokens = {}
    /\ blacklisted_tokens = {}
    /\ seq = 1
    /\ InitLimited(1)

SpecIssue == InitIssue /\ [][NextReset]_vars

\* Worker p, past the middleware and with no other request in flight,
\* presents a well-formed confirmation: the email of user uid and the
\* digits of a code that user holds unused and unexpired.
ConfirmsValidCode(p, uid) ==
    /\ pc[p] = "pr_next" /\ \A q \in Procs \ {p} : Idle(q)
    /\ loc'[p].op = "verify_otp" /\ loc'[p].email # ""
    /\ \E u \in users : u.user_id = uid /\ u.email = loc'[p].email
    /\ HoldsValidCode(uid, loc'[p].otp)
\* Every call the limiter has admitted for the email of user uid was a
\* request or resend that issued a code: the runs start with identifier 1
\* handed out, and each issued code takes the next identifier.
OnlyIssuancesAdmitted(uid) ==
    /\ faults = 0
    /\ \A u \in users :
           u.user_id = uid =>
               /\ u.email \in DOMAIN limits
               /\ Len(limits[u.email]) = seq - 1

\* C33: every reset code issued to an existing user can be confirmed by
\* that user before it expires: after a sequence of requests and resends
\* that ends by issuing it, a confirmation with the right email and the
\* code is not refused by the per-email rate limiter.
C33_IssuedCodeConfirmable ==
    [][\A p \in Procs : \A u \in users :
          (ConfirmsValidCode(p, u.user_id) /\ OnlyIssuancesAdmitted(u.user_id))
              => resp'[p].status # 429]_vars

\* ------------------------------------------------- denied calls
\* The step is a call of rl.Allow(k) by worker p: the middleware of the
\* reset routes calls ipLimiter, the handlers call emailLimiter and go on
\* to their lookup or answer with the refusal on record.
LimiterCalled(p, rl, k) ==
    /\ <<pc[p], loc[p], resp[p]>> # <<pc'[p], loc'[p], resp'[p]>>
    /\ IF rl = "ip"
       THEN /\ Idle(p) /\ loc'[p].op = "password_reset"
            /\ loc'[p].client[1] = k
       ELSE /\ \/ pc[p] = "pr_next"
               \/ pc[p] = "vq_limit"
               \/ Idle(p) /\ loc'[p].op = "resend_verification"
            /\ loc'[p].email = k
            /\ pc'[p] \in {"pr_user", "vr_user", "vt_delete"}
               \/ loc'[p].denied
\* k has a timestamp on record and its oldest one is at least / more than
\* d ticks old.
OldestAtLeast(k, d) ==
    k \in DOMAIN limits /\ Len(limits[k]) > 0 /\ now - limits[k][1] >= d
OldestOlderThan(k, d) ==
    k \in DOMAIN limits /\ Len(limits[k]) > 0 /\ now - limits[k][1] > d

\* C34 as stated: a denied Allow(k) records no timestamp, and once
\* windowLength has elapsed since the oldest admitted request still counted
\* for k, the next Allow(k) returns true.
C34_AdmittedOnceWindowElapsed ==
    [][\A rl \in RateLimiters : \A k \in LimiterKeys(rl) : \A p \in Procs :
          LimiterCalled(p, rl, k) =>
              /\ loc'[p].denied =>
                     /\ codes' = codes
                     /\ limits'[k] = SelectSeq(limits[k],
                            LAMBDA t : now - t <= NewRateLimiter(rl).windowLength)
              /\ OldestAtLeast(k, NewRateLimiter(rl).windowLength)
                     => ~loc'[p].denied]_vars

\* C34 (amended): a denied Allow(k) records no timestamp (it only drops
\* the timestamps that have left the window), and once more than
\* windowLength has elapsed since the oldest admitted request still counted
\* for k, the next Allow(k) returns true, however many calls were denied
\* in between.
C34_AdmittedOnceWindowPassed ==
    [][\A rl \in RateLimiters : \A k \in LimiterKeys(rl) : \A p \in Procs :
          LimiterCalled(p, rl, k) =>
              /\ loc'[p].denied =>
                     /\ codes' = codes
                     /\ limits'[k] = SelectSeq(limits[k],
                            LAMBDA t : now - t <= NewRateLimiter(rl).windowLength)
              /\ OldestOlderThan(k, NewRateLimiter(rl).windowLength)
                     => ~loc'[p].denied]_vars

\* One worker's request stands refused for an email while the other has
\* since been admitted for it, the fourth admission of the run: the window
\* of the first three has passed and the refusal did not restart it.
C34_Witness ==
    \E p, q \in Procs : \E k \in LimiterKeys("email") :
        /\ pc[p] = "done" /\ loc[p].email = k /\ loc[p].denied
        /\ pc[q] \in {"pr_user", "vr_user"} /\ loc[q].email = k
        /\ k \in DOMAIN codes.admitted
        /\ Len(codes.admitted[k]) > EmailMaxRequests
        /\ k \in DOMAIN limits /\ limits[k] = <<now>>

\* ------------------------------------------------ the verified flag
\* Alice has registered and holds the verification token of her
\* registration, which has expired or is fresh.
InitLifecycle ==
    /\ now = 0
    /\ users = {Alice}
    /\ refresh_tokens = {}
    /\ password_reset_tokens = {}
    /\ \E e \in {-1, EmailVerificationTokenExpiry} :
           email_verification_tokens =
               {[id |-> 2, user_id |-> 1, token |-> 2, expires_at |-> e]}
    /\ blacklisted_tokens = {}
    /\ seq = 2
    /\ limits = ("10.0.0.1" :> <<0, 0, 0>>)
    /\ InitProcs
    /\ faults = MaxFaults
    /\ codes = [NoCodes EXCEPT !.admitted = limits]

\* Every operation of the authentication routes.  The requests arrive one
\* after another and are served by worker p1: the runs are the sequences of
\* operations, at one instant of the clock.
NextLifecycle ==
    \/ RegisterStart("p1")
    \/ RegisterCreateUser("p1")
    \/ RegisterTokens("p1")
    \/ RegisterCommit("p1")
    \/ LoginUser("p1")
    \/ LoginUpdateLastLogin("p1")
    \/ LoginGenerateTokenPair("p1")
    \/ RefreshLookup("p1")
    \/ RefreshGetUser("p1")
    \/ RefreshRevoke("p1")
    \/ RefreshCreate("p1")
    \/ RefreshCommit("p1")
    \/ LogoutUser("p1")
    \/ UpdateUser("p1")
    \/ UpdateUserTaken("p1")
    \/ UpdateUserUpdate("p1")
    \/ VerifyEmailStart("p1")
    \/ VerifyEmailExpired("p1")
    \/ VerifyEmailUser("p1")
    \/ VerifyEmailSet("p1")
    \/ VerifyEmailDelete("p1")
    \/ ResendVerificationEmail("p1")
    \/ ResendVerificationGetUser("p1")
    \/ RequestVerificationEmail("p1")
    \/ RequestVerificationAllow("p1")
    \/ VerificationDelete("p1")
    \/ VerificationInsert("p1")
    \/ PasswordResetRateLimitMiddleware("p1")
    \/ RequestPasswordReset("p1")
    \/ ResetCodeGetUser("p1")
    \/ ResendOTP("p1")
    \/ ResetCodeDelete("p1")
    \/ ResetCodeInsert("p1")
    \/ VerifyStart("p1")
    \/ VerifyGetUser("p1")
    \/ VerifyGetToken("p1")
    \/ VerifyResetPassword("p1")
    \/ VerifyResetMark("p1")
    \/ VerifyResetCommit("p1")
    \/ VerifyRevoke("p1")
    \/ UpdatePasswordStart("p1")
    \/ UpdatePasswordUpdate("p1")
    \/ UpdatePasswordRevoke("p1")
    \/ UpdatePasswordCommit("p1")

SpecLifecycle == InitLifecycle /\ [][NextLifecycle]_vars

\* C35: email_verified is monotonic: once a user's flag is true, no
\* register, login, refresh, logout, verification confirm / resend /
\* request, password reset or password change sets it back to false (or
\* removes the user).
C35_VerifiedStaysVerified ==
    [][\A u \in users :
          u.email_verified =>
              \E v \in users' : v.user_id = u.user_id /\ v.email_verified]_vars

\* Alice confirmed her email and then reset her password: she is still
\* verified.
C35_Witness ==
    /\ ResetSucceeded("p1")
    /\ \E u \in users :
           /\ u.user_id = loc["p1"].uid /\ u.email_verified
           /\ u.password_hash # Alice.password_hash

\* ------------------------------------------------------ the frame of logout
\* The step of worker p is a LogoutUser request.
LogsOut(p) ==
    /\ <<pc[p], loc[p], resp[p]>> # <<pc'[p], loc'[p], resp'[p]>>
    /\ loc'[p].op = "logout"

\* The bearer tokens ValidateAccessToken accepts, given the blacklist.
AcceptedTokens ==
    {tok \in PresentedTokens :
        ValidateAccessToken(tok, IsBlacklisted(tok)) = ""}

\* C36: LogoutUser changes nothing but the refresh-token row of the token it
\* was given: the user record, the blacklist, the reset-code and verification
\* ledgers and every other refresh token stay as they were, and every access
\* token ValidateAccessToken accepted before the logout (the bearer token of
\* the call among them) is accepted after it.
C36_LogoutTouchesOnlyItsToken ==
    [][\A p \in Procs :
          LogsOut(p) =>
              /\ users' = users
              /\ blacklisted_tokens' = blacklisted_tokens
              /\ password_reset_tokens' = password_reset_tokens
              /\ email_verification_tokens' = email_verification_tokens
              /\ refresh_tokens' \subseteq refresh_tokens
              /\ \A r \in refresh_tokens \ refresh_tokens' :
                     r.token = loc'[p].token
              /\ AcceptedTokens \subseteq AcceptedTokens']_vars

\* A logout removed the row of its token while another session of the same
\* user is still on the ledger.
C36_Witness ==
    \E p \in Procs :
        /\ LoggedOut(p) /\ loc[p].revoked /\ resp[p].status = 200
        /\ GetRefreshToken(loc[p].token) = {}
        /\ \E r \in refresh_tokens :
               r.user_id = Alice.user_id /\ r.token # loc[p].token
        /\ AcceptedTokens # {}

\* ---------------------------------------------------- the frame of a refresh
\* Two users, one session each.
InitRotate ==
    /\ now = 0
    /\ users = {Alice, Bob}
    /\ refresh_tokens =
           {[token |-> 1, user_id |-> 1, expires_at |-> RefreshTokenDuration,
             revoked |-> FALSE, ip_address |-> "10.0.0.1",
             user_agent |-> "curl"],
            [token |-> 2, user_id |-> 2, expires_at |-> RefreshTokenDuration,
             revoked |-> FALSE, ip_address |-> "10.0.0.2",
             user_agent |-> "firefox"]}
    /\ password_reset_tokens = {}
    /\ email_verification_tokens = {}
    /\ blacklisted_tokens = {}
    /\ limits = <<>>
    /\ seq = 2
    /\ InitWorkers

SpecRotate == InitRotate /\ [][NextRefresh]_vars

\* The refresh-token rows of user uid, and of everybody else.
TokensOf(rows, uid) == {r \in rows : r.user_id = uid}
TokensOfOthers(rows, uid) == {r \in rows : r.user_id # uid}

\* The step of worker p belongs to a refresh that has found its token.
Rotates(p) ==
    /\ <<pc[p], loc[p], resp[p]>> # <<pc'[p], loc'[p], resp'[p]>>
    /\ loc[p].op = "refresh" /\ loc[p].found
    /\ pc[p] \in {"rf_user", "rf_revoke", "rf_create", "rf_commit"}

\* C37: a successful RefreshAccessToken(T) removes the row of T, adds exactly
\* one row for T's owner, which is live, and does nothing else to the
\* ledger: the owner has as many rows after its statements as before, and no
\* step of the call touches a row of another user.
C37_RotationKeepsCount ==
    [][\A p \in Procs :
          Rotates(p) =>
              LET uid == loc[p].uid
                  removed == refresh_tokens \ refresh_tokens'
                  added == refresh_tokens' \ refresh_tokens
              IN
              /\ TokensOfOthers(refresh_tokens', uid)
                     = TokensOfOthers(refresh_tokens, uid)
              /\ pc'[p] = "rf_create" =>
                     /\ added = {}
                     /\ Cardinality(removed) = 1
                     /\ \A r \in removed : r.token = loc[p].token
                     /\ Cardinality(TokensOf(refresh_tokens', uid))
                            = Cardinality(TokensOf(refresh_tokens, uid)) - 1
              /\ pc'[p] = "rf_commit" =>
                     /\ removed = {}
                     /\ Cardinality(added) = 1
                     /\ \A r \in added :
                            /\ r.user_id = uid /\ r.expires_at > now
                            /\ r.token = loc'[p].issued
                     /\ Cardinality(TokensOf(refresh_tokens', uid))
                            = Cardinality(TokensOf(refresh_tokens, uid)) + 1
              /\ (pc[p] = "rf_commit" /\ resp'[p].status = 200) =>
                     /\ refresh_tokens' = refresh_tokens
                     /\ loc[p].revoked /\ loc[p].issued > 0
              /\ pc[p] = "rf_user" => refresh_tokens' = refresh_tokens]_vars

\* Alice's refresh succeeded: her old token is gone, the new one is her only
\* session, and Bob's session is still there.
C37_Witness ==
    \E p \in Procs :
        /\ pc[p] = "done" /\ loc[p].op = "refresh" /\ resp[p].status = 200
        /\ loc[p].token = 1 /\ loc[p].revoked
        /\ \A r \in refresh_tokens : r.token # 1
        /\ Cardinality(TokensOf(refresh_tokens, Alice.user_id)) = 1
        /\ \E r \in TokensOf(refresh_tokens, Alice.user_id) :
               r.token = resp[p].refresh
        /\ \E r \in TokensOf(refresh_tokens, Bob.user_id) : r.token = 2

\* ------------------------------------------- the refresh-token sweep tasks
\* The middleware setupRefreshTokenCleanup registers with router.Use: it runs
\* for every request, starts a goroutine that owns a 12-hour ticker and
\* never returns, then calls c.Next().
StartRefreshTokenCleanup ==
    /\ codes.sweepers < MaxServed
    /\ codes' = [codes EXCEPT !.sweepers = @ + 1]

\* GET /: the middleware chain, then the welcome message.
Welcome(p) ==
    /\ Idle(p)
    /\ StartRefreshTokenCleanup
    /\ pc' = [pc EXCEPT ![p] = "done"]
    /\ loc' = [loc EXCEPT ![p] = [NoLoc EXCEPT !.op = "welcome"]]
    /\ resp' = [resp EXCEPT ![p] =
           Reply(200, "Welcome to ChefShare API", NoBearer, 0)]
    /\ UNCHANGED <<now, users, refresh_tokens, password_reset_tokens,
                   email_verification_tokens, blacklisted_tokens, limits, seq,
                   tx, faults, rotations>>

\* GET /api/v1/health: the middleware chain, then SELECT 1; the answer is
\* 200 whether or not the database replied.
Health(p) ==
    /\ Idle(p)
    /\ StartRefreshTokenCleanup
    /\ \E ok \in Outcomes :
        /\ Inject(ok)
        /\ loc' = [loc EXCEPT ![p] =
               [NoLoc EXCEPT !.op = "health", !.fault = ~ok,
                             !.err = IF ok THEN "" ELSE "error"]]
    /\ pc' = [pc EXCEPT ![p] = "done"]
    /\ resp' = [resp EXCEPT ![p] = Reply(200, "ok", NoBearer, 0)]
    /\ UNCHANGED <<now, users, refresh_tokens, password_reset_tokens,
                   email_verification_tokens, blacklisted_tokens, limits, seq,
                   tx, rotations>>

\* The ticker of one of the goroutines started so far fires.
RefreshTokenSweep == codes.sweepers > 0 /\ RefreshTokenCleanup

NextServe ==
    \/ Tick
    \/ \E p \in Procs : Welcome(p)
    \/ \E p \in Procs : Health(p)
    \/ RefreshTokenSweep

\* Starts like SpecSweep, right after SetupRoutes: no request served yet.
SpecServe == InitSweep /\ [][NextServe]_vars

\* C38: at most one refresh-token sweep goroutine runs, however many
\* requests have been served.
C38_OneSweepTask == codes.sweepers <= 1

====
